---- MODULE Spec2Model ----
(***************************************************************************)
(* Model of the analysis orchestrator of RP_Backend:                       *)
(* src/utils/assistantService.js (the current AssistantService, lines      *)
(* 286-671) driven through a fake assistant network client, together with  *)
(* its two users: the startup of src/server.js and postApplication of     *)
(* src/controllers/applicationController.js.                               *)
(*                                                                         *)
(* One service object (the exported singleton).  Its methods retry,        *)
(* waitForCompletion, analyzeApplication and testConnection are async      *)
(* functions; every action below is one run-to-completion slice of such a  *)
(* function, from one await of a network call to the next.                 *)
(***************************************************************************)
EXTENDS Integers, Sequences, FiniteSets, TLC

\* ------------------------------------------------------------------------
\* Program constants
\* ------------------------------------------------------------------------
MAX_RETRIES == 3
RETRY_DELAY == 1000
MAX_ATTEMPTS == 60

\* ------------------------------------------------------------------------
\* Bounds of the model
\* ------------------------------------------------------------------------
\* largest maxRetries argument of a direct retry() call
MaxRetriesArg == 4
\* largest maxAttempts argument of a direct waitForCompletion() call
MaxAttemptsArg == 5
\* number of conversation contexts the fake client hands out
MaxContexts == 2
\* number of transport errors the fake client injects into one call of
\* waitForCompletion or analyzeApplication
MaxFaults == 4
\* analyzeApplication calls in flight at the same time
MaxCalls == 2
\* longest text, in tokens, handed to the parsers on their own
MaxLen == 5
\* longest credential string after its prefix, in characters
MaxKeyBody == 5
MaxOrgBody == 1

\* ------------------------------------------------------------------------
\* Text.  A string is a sequence of tokens.  A token >= 0 is a run of
\* digits (\d+) with that value; the negative tokens are the substrings the
\* regular expressions of the service look for.
\* ------------------------------------------------------------------------
\* "1. INTERNAL RECRUITER ANALYSIS:"
H1 == -1
\* "2. CANDIDATE FEEDBACK EMAIL:"
H2 == -2
\* a run of whitespace
WS == -3
\* "Match Score:"
MS == -4
\* "Initial Feedback:"
IFB == -5
\* "Strengths Identified:"
SID == -6
\* "Areas for Enhancement:"
AFE == -7
\* "Recommendations:"
REC == -8
\* one of the inappropriate phrases ("our team")
PHR == -9
\* any other word
WORD == -10
\* "---"
SEP == -11
\* "manual"
MANUAL == -12
\* "-"
MINUS == -13

\* "Subject:"
SUBJ == -14
\* a passage of 160 words
PASSAGE == -15
\* another of the inappropriate phrases ("join us")
PHR2 == -16

Min2(a, b) == IF a < b THEN a ELSE b
Max2(a, b) == IF a > b THEN a ELSE b
SetMin(S) == CHOOSE x \in S : \A y \in S : x <= y
SetMax(S) == CHOOSE x \in S : \A y \in S : x >= y

\* String.prototype.trim
Trim(t) ==
  LET nz == {k \in DOMAIN t : t[k] # WS}
  IN IF nz = {} THEN <<>> ELSE SubSeq(t, SetMin(nz), SetMax(nz))

\* String.prototype.replace(regex, '') with a regex without the g flag:
\* the first occurrence of the token is removed
RemoveFirst(t, tok) ==
  LET ks == {k \in DOMAIN t : t[k] = tok}
  IN IF ks = {} THEN t
     ELSE SubSeq(t, 1, SetMin(ks) - 1) \o SubSeq(t, SetMin(ks) + 1, Len(t))

\* faulty variant: the first header is left in the recruiter feedback
parseAnalysisResponse_keepsHeader(analysis) ==
  LET ks == {k \in DOMAIN analysis : analysis[k] = H2}
  IN IF analysis = <<>>
       THEN [recruiterFeedback |-> <<>>, candidateEmail |-> <<>>]
     ELSE IF Cardinality(ks) + 1 # 2
       THEN [recruiterFeedback |-> Trim(analysis), candidateEmail |-> <<>>]
     ELSE LET k == SetMin(ks)
          IN [recruiterFeedback |-> Trim(SubSeq(analysis, 1, k - 1)),
              candidateEmail |-> Trim(SubSeq(analysis, k + 1, Len(analysis)))]

\* parseAnalysisResponse: split on the second header; exactly two parts or
\* the whole text is recruiter feedback and the email is ''
parseAnalysisResponse(analysis) ==
  LET ks == {k \in DOMAIN analysis : analysis[k] = H2}
  IN IF analysis = <<>>
       THEN [recruiterFeedback |-> <<>>, candidateEmail |-> <<>>]
     ELSE IF Cardinality(ks) + 1 # 2
       THEN [recruiterFeedback |-> Trim(RemoveFirst(analysis, H1)),
             candidateEmail |-> <<>>]
     ELSE LET k == SetMin(ks)
          IN [recruiterFeedback |->
                Trim(RemoveFirst(SubSeq(analysis, 1, k - 1), H1)),
              candidateEmail |-> Trim(SubSeq(analysis, k + 1, Len(analysis)))]

\* index of the first token at or after k that is not whitespace (\s*)
RECURSIVE SkipWS(_, _)
SkipWS(t, k) == IF k <= Len(t) /\ t[k] = WS THEN SkipWS(t, k + 1) ELSE k

\* positions where /Match Score:\s*(\d+)/ matches
ScoreMatches(t) ==
  {k \in DOMAIN t : t[k] = MS /\ SkipWS(t, k + 1) <= Len(t)
                              /\ t[SkipWS(t, k + 1)] >= 0}

\* faulty variant: the last match is used instead of the first
parseMatchScore_lastMatch(analysis) ==
  IF ScoreMatches(analysis) = {} THEN 0
  ELSE Min2(100, Max2(0, analysis[SkipWS(analysis, SetMax(ScoreMatches(analysis)) + 1)]))

\* faulty variant: the captured number is returned as parsed, unclamped
parseMatchScore_unclamped(analysis) ==
  IF ScoreMatches(analysis) = {} THEN 0
  ELSE analysis[SkipWS(analysis, SetMin(ScoreMatches(analysis)) + 1)]

\* parseMatchScore: first match, clamped into [0,100], 0 without a match
parseMatchScore(analysis) ==
  IF ScoreMatches(analysis) = {} THEN 0
  ELSE Min2(100, Max2(0, analysis[SkipWS(analysis, SetMin(ScoreMatches(analysis)) + 1)]))

\* number of blanks inside a token
InnerBlanks(tok) ==
  CASE tok = H1 -> 3
    [] tok = H2 -> 3
    [] tok = MS -> 1
    [] tok = IFB -> 1
    [] tok = SID -> 1
    [] tok = AFE -> 2
    [] tok = PHR -> 1
    [] tok = PHR2 -> 1
    [] tok = PASSAGE -> 159
    [] OTHER -> 0

RECURSIVE SumBlanks(_, _)
SumBlanks(t, k) ==
  IF k > Len(t) THEN 0
  ELSE (IF t[k] = WS THEN 1 ELSE InnerBlanks(t[k])) + SumBlanks(t, k + 1)

\* analysis.split(/\s+/).length
WordCount(t) == SumBlanks(t, 1) + 1

\* /Header:[\s\S]+?(?=\n\n|$)/ : the header followed by at least one char
SectionPresent(t, hdr) == \E k \in DOMAIN t : t[k] = hdr /\ k < Len(t)

RequiredSections == <<MS, IFB, SID, AFE, REC>>

\* the phrases of inappropriatePhrases the texts are built from, in the
\* order of the array
InappropriatePhrases == <<PHR, PHR2>>

\* `Contains inappropriate phrase: "${phrase}"`
PhraseIssue(phrase) ==
  IF phrase = PHR THEN "inappropriate phrase" ELSE "inappropriate phrase 2"

\* faulty variant: an issue is pushed for every occurrence of a phrase
PhraseIssues_perOccurrence(analysis) ==
  LET found == SelectSeq(analysis,
                 LAMBDA tok : \E k \in DOMAIN InappropriatePhrases :
                                tok = InappropriatePhrases[k])
  IN [k \in 1..Len(found) |-> PhraseIssue(found[k])]

\* the loop over inappropriatePhrases: one issue for each phrase that the
\* text includes
PhraseIssues(analysis) ==
  LET found == SelectSeq(InappropriatePhrases,
                 LAMBDA p : \E k \in DOMAIN analysis : analysis[k] = p)
  IN [k \in 1..Len(found) |-> PhraseIssue(found[k])]

\* faulty variant: the ceiling is 15 words
validateAnalysisResponse_ceiling15(analysis) ==
  LET present(h) == IF h = MS THEN ScoreMatches(analysis) # {}
                    ELSE SectionPresent(analysis, h)
      missing == SelectSeq(RequiredSections, LAMBDA h : ~present(h))
      wordCount == WordCount(analysis)
      issues == (IF wordCount > 15 THEN <<"too long">> ELSE <<>>)
                \o PhraseIssues(analysis)
  IN [isValid |-> (Len(missing) = 0 /\ Len(issues) = 0),
      missing |-> missing, issues |-> issues, wordCount |-> wordCount]

\* validateAnalysisResponse
validateAnalysisResponse(analysis) ==
  LET present(h) == IF h = MS THEN ScoreMatches(analysis) # {}
                    ELSE SectionPresent(analysis, h)
      missing == SelectSeq(RequiredSections, LAMBDA h : ~present(h))
      wordCount == WordCount(analysis)
      issues == (IF wordCount > 150 THEN <<"too long">> ELSE <<>>)
                \o PhraseIssues(analysis)
  IN [isValid |-> (Len(missing) = 0 /\ Len(issues) = 0),
      missing |-> missing, issues |-> issues, wordCount |-> wordCount]

\* ------------------------------------------------------------------------
\* Values, errors, results
\* ------------------------------------------------------------------------
NULL == 0

Ops == {"create", "post", "run", "retrieve", "list", "del", "op"}

\* the states a run can be reported in; "unknown" stands for every string
\* that is not a case label of the switch in waitForCompletion
Statuses == {"queued", "in_progress", "requires_action", "completed",
             "failed", "cancelled", "expired", "unknown"}

\* run.last_error?.message of the fake client; "" is an absent last_error
LastErrors == {"", "rate_limit_exceeded"}

MkError(kind, status, reason, o, seq) ==
  [name |-> "Error", kind |-> kind, status |-> status, reason |-> reason,
   op |-> o, seq |-> seq]

\* the error of the seq-th invocation of remote operation o
TransportError(o, seq) == MkError("transport", "", "", o, seq)

\* `Assistant run ${run.status}: ${run.last_error?.message || 'Unknown error'}`
RunError(status, lastError) ==
  MkError("Assistant run", status,
          IF lastError = "" THEN "Unknown error" ELSE lastError, "", 0)

\* `Unknown run status: ${run.status}`
UnknownStatusError(status) == MkError("Unknown run status", status, "", "", 0)

\* 'Assistant analysis timed out'
TimeoutError == MkError("Assistant analysis timed out", "", "", "", 0)

\* reading messages.data[0].content[0].text.value of a list without text
TypeError == MkError("TypeError", "", "", "", 0)

Returned(v) == [kind |-> "return", value |-> v]
Thrown(e) == [kind |-> "throw", error |-> e]
NoResult == [kind |-> "pending"]

NullValue == [type |-> "null"]
BoolValue(b) == [type |-> "boolean", value |-> b]
UndefinedValue == [type |-> "undefined"]

\* the analysis text of the fallback result
FallbackAnalysis ==
  <<WS, H1, WS, MS, WS, 50, WS, IFB, WS, WORD, WS, SID, WS, WORD, WS,
    AFE, WS, WORD, WS, REC, WS, WORD, WS, H2, WS, WORD, WS, WORD, WS, WORD>>

\* the result returned when the service is not configured
FallbackResult ==
  [type |-> "AnalysisResult", success |-> TRUE,
   analysis |-> FallbackAnalysis, score |-> 50]

\* "We apologize, but we couldn't complete the analysis at this moment. ..."
ApologyAnalysis == <<WORD, WS, WORD, WS, WORD>>

\* faulty variant: the catch block answers with the fallback output
FailureResult_fallback(e) == FallbackResult

\* the result built by the catch block of analyzeApplication
FailureResult(e) ==
  [type |-> "AnalysisResult", success |-> FALSE, error |-> e,
   analysis |-> ApologyAnalysis, score |-> 0]

\* faulty variant: a text that fails validation is turned into a failure
SuccessResult_rejectsInvalid(analysis) ==
  IF validateAnalysisResponse(analysis).isValid
    THEN [type |-> "AnalysisResult", success |-> TRUE, analysis |-> analysis,
          score |-> parseMatchScore(analysis),
          validation |-> validateAnalysisResponse(analysis)]
    ELSE FailureResult(MkError("Invalid analysis", "", "", "", 0))

\* the result built at the end of the try block of analyzeApplication
SuccessResult(analysis) ==
  [type |-> "AnalysisResult", success |-> TRUE, analysis |-> analysis,
   score |-> parseMatchScore(analysis),
   validation |-> validateAnalysisResponse(analysis)]

\* texts the fake assistant answers with
WellFormed72 ==
  <<H1, WS, MS, WS, 72, WS, IFB, WS, WORD, WS, SID, WS, WORD, WS,
    AFE, WS, WORD, WS, REC, WS, WORD, WS, H2, WS, WORD, WS, WORD>>
NoSeparator150 == <<MS, 150, WS, WORD, WS, PHR>>
TooLong72 ==
  <<H1, WS, MS, WS, 72, WS, IFB, WS, PASSAGE, WS, SID, WS, WORD, WS,
    AFE, WS, WORD, WS, REC, WS, WORD, WS, H2, WS, WORD, WS, WORD>>
EmptyText == <<>>

\* what messages.list resolves to: a text, or a list without usable text
ListResponses ==
  {[hasText |-> TRUE, text |-> t] : t \in {WellFormed72, NoSeparator150, TooLong72, EmptyText}}
  \cup {[hasText |-> FALSE, text |-> <<>>]}

\* ------------------------------------------------------------------------
\* State
\* ------------------------------------------------------------------------
VARIABLES
  env,            \* what initialize() finds: the validation verdict and
                  \* whether OPENAI_ASSISTANT_ID is set
  isConfigValid,  \* this.isConfigValid: "undefined", "true" or "false"
  client,         \* this.client: "undefined" or "openai"
  assistantId,    \* this.assistantId: "undefined" or "asst"
  op,             \* the method called from outside, "none" before any call
  pc,             \* where that call is: "idle", an await point, or "done"
  entryValid,     \* isConfigValid as the call found it on entry
  maxRetries,     \* argument of the retry() loop in progress
  maxAttempts,    \* argument of the waitForCompletion() loop in progress
  i,              \* loop index of retry()
  attempt,        \* loop index of waitForCompletion()
  thread,         \* local variable thread of analyzeApplication (its id)
  plan,           \* fake operation given to a direct retry(): plan[k] is
                  \* whether its k-th invocation succeeds
  result,         \* how the call completed: value returned or error thrown
  calls,          \* fake client call counters of the call in progress
  anyOk,          \* some network invocation of this call succeeded
  faults,         \* network invocations of this call that failed
  lastStatus,     \* status of the latest successful status retrieval
  lastError,      \* last_error message that came with that status
  onlyWaiting,    \* every status retrieved so far was a waiting one
  steps,          \* the remote operations of this call in the order they
                  \* were first invoked, each followed by "ok" once it has
                  \* succeeded
  delays,         \* the waits, in milliseconds, of the retry() in progress
                  \* or, once the call is over, of its last retry()
  created,        \* contexts the fake client has handed out (last id)
  live,           \* contexts that exist at the remote service
  delCalls,       \* delete invocations per context id
  server,         \* the server process: "none" when the service is used
                  \* on its own, else the phase of its startup
  request,        \* the postApplication request in progress: its input,
                  \* where the handler is, what it stored and answered
  frames,         \* concurrent analyzeApplication calls: for each its
                  \* position, retry index, local variable thread and
                  \* result
  owner,          \* owner[t]: the call whose threads.create returned t
  refs,           \* every remote operation issued on a context so far:
                  \* which call, which operation, which context
  text,           \* the text handed to a parser called on its own
  parsed,         \* what that parser returned
  credentials,    \* the two credential strings the validator finds
  report          \* what the validator returned

vars == <<env, isConfigValid, client, assistantId, op, pc, entryValid,
          maxRetries, maxAttempts, i, attempt, thread, plan, result, calls,
          anyOk, faults, lastStatus, lastError, onlyWaiting, steps, delays,
          created,
          live, delCalls, server, request, frames, owner, refs, text,
          parsed, credentials, report>>

serviceVars == <<env, isConfigValid, client, assistantId>>
remoteVars == <<created, live, delCalls>>
\* what the methods of the service never write
concVars == <<frames, owner, refs>>
parseVars == <<text, parsed>>
validatorVars == <<credentials, report>>
extVars == <<server, request, concVars, parseVars, validatorVars>>
\* the frame of the call in progress
callVars == <<op, pc, entryValid, maxRetries, maxAttempts, i, attempt, thread,
              plan, result, calls, anyOk, faults, lastStatus, lastError,
              onlyWaiting, steps, delays>>

\* no request is being handled
NoRequest == [pc |-> "none"]
\* neither credential is set anywhere
NoCredentials == [apiKey |-> <<>>, orgId |-> <<>>]

NoCalls == [o \in Ops |-> 0]
NoPlan == [k \in 1..MaxRetriesArg |-> FALSE]

\* concurrent callers
Calls == 1..MaxCalls

\* a call that has not been made yet
IdleFrame ==
  [pc |-> "idle", i |-> 0, thread |-> NULL, result |-> NoResult]

\* the service object right after `new AssistantService()`, and a fake
\* client nothing has been asked of
InitService ==
  /\ frames = [c \in Calls |-> IdleFrame]
  /\ owner = <<>>
  /\ refs = {}
  /\ parsed = NoResult
  /\ report = NoResult
  /\ isConfigValid = "undefined"
  /\ client = "undefined"
  /\ assistantId = "undefined"
  /\ op = "none"
  /\ pc = "idle"
  /\ entryValid = "undefined"
  /\ maxRetries = MAX_RETRIES
  /\ maxAttempts = MAX_ATTEMPTS
  /\ i = 0
  /\ attempt = 0
  /\ thread = NULL
  /\ plan = NoPlan
  /\ result = NoResult
  /\ calls = NoCalls
  /\ anyOk = FALSE
  /\ faults = 0
  /\ lastStatus = "none"
  /\ lastError = ""
  /\ onlyWaiting = TRUE
  /\ steps = <<>>
  /\ delays = <<>>
  /\ created = 0
  /\ live = {}
  /\ delCalls = [t \in 1..MaxContexts |-> 0]

\* the service module loaded on its own
Init ==
  /\ env \in [isValid : BOOLEAN, assistantId : BOOLEAN]
  /\ InitService
  /\ credentials = NoCredentials
  /\ server = "none"
  /\ request = NoRequest
  /\ text = <<>>

\* faulty variant: a missing assistant id does not lead to useFallbackMode
initializedFlag_withoutId(e) == IF e.isValid THEN "true" ELSE "false"

\* this.isConfigValid when initialize() is over: the verdict of the
\* validator, unless useFallbackMode() was called for a missing assistant id
initializedFlag(e) ==
  IF e.isValid /\ e.assistantId THEN "true" ELSE "false"

\* ------------------------------------------------------------------------
\* initialize(): started by the constructor and not awaited; the part after
\* `await validateOpenAIConfig()` runs once, in one piece
\* ------------------------------------------------------------------------
initialize ==
  /\ isConfigValid = "undefined"
  /\ server \notin {"loading", "crashed"}
  /\ IF ~env.isValid
       THEN UNCHANGED <<client, assistantId>>
       ELSE /\ client' = "openai"
            /\ assistantId' = IF env.assistantId THEN "asst" ELSE "undefined"
  /\ isConfigValid' = initializedFlag(env)
  /\ UNCHANGED <<extVars, env, op, pc, entryValid, maxRetries, maxAttempts, i, attempt,
                 thread, plan, result, calls, anyOk, faults, lastStatus,
                 lastError, onlyWaiting, steps, delays, created, live,
                 delCalls>>

\* faulty variant: only the flag before initialize() counts as not
\* configured, so the fallback mode goes to the network
configured_unlessUndefined == isConfigValid # "undefined"

\* ------------------------------------------------------------------------
\* Pieces shared by the methods
\* ------------------------------------------------------------------------
\* faulty variant: only an explicit false counts as not configured, so a
\* call made before initialize() has finished goes to the network
configured_unlessFalse == isConfigValid # "false"

\* `if (!this.isConfigValid) return ...` at the top of a method
configured == isConfigValid = "true"

\* faulty variant: the wait does not grow with the attempts
retryDelay_constant(idx) == RETRY_DELAY

\* the wait after the failed pass idx of the retry loop:
\* RETRY_DELAY * (i + 1)
retryDelay(idx) == RETRY_DELAY * (idx + 1)

\* faulty variant: the error is rethrown one attempt early
retryNext_throwsEarly(idx, maxR, ok) ==
  IF ok THEN "return"
  ELSE IF idx = maxR - 2 THEN "throw"
  ELSE "sleep"

\* faulty variant: the first error is rethrown, nothing is retried
retryNext_noRetry(idx, maxR, ok) == IF ok THEN "return" ELSE "throw"

\* faulty variant: the last error is not rethrown, the loop just ends
retryNext_swallows(idx, maxR, ok) == IF ok THEN "return" ELSE "sleep"

\* what one pass of the retry() loop does with the outcome of operation():
\* return its value, rethrow its error, or sleep and go round again
retryNext(idx, maxR, ok) ==
  IF ok THEN "return"
  ELSE IF idx = maxR - 1 THEN "throw"
  ELSE "sleep"

\* faulty variant: a failed run is polled again like a queued one
statusCase_failedWaits(status) ==
  CASE status = "completed" -> "return"
    [] status \in {"cancelled", "expired"} -> "throw"
    [] status \in {"queued", "in_progress", "requires_action", "failed"}
         -> "sleep"
    [] OTHER -> "default"

\* faulty variant: the default case waits instead of throwing
statusCase_defaultWaits(status) ==
  CASE status = "completed" -> "return"
    [] status \in {"failed", "cancelled", "expired"} -> "throw"
    [] OTHER -> "sleep"

\* the switch on run.status in waitForCompletion
statusCase(status) ==
  CASE status = "completed" -> "return"
    [] status \in {"failed", "cancelled", "expired"} -> "throw"
    [] status \in {"queued", "in_progress", "requires_action"} -> "sleep"
    [] OTHER -> "default"

\* faulty variant: the loop bound is off by one (i <= maxAttempts)
pollNext_extraPass(att, maxA) == IF att < maxA THEN "again" ELSE "timeout"

\* faulty variant: the loop has no bound
pollNext_unbounded(att, maxA) == "again"

\* the polling loop after a waiting status: another pass while
\* i + 1 < maxAttempts, else the loop ends and the timeout error is thrown
pollNext(att, maxA) == IF att + 1 < maxA THEN "again" ELSE "timeout"

\* faulty variant: a call that reached its finally block leaves the service
\* in fallback mode (useFallbackMode)
flagAfterCall_fallback(flag) == "false"

\* this.isConfigValid when a call is over: the methods read the flag and
\* none of them assigns it or calls useFallbackMode
flagAfterCall(flag) == flag

\* faulty variant: the guard forgets that thread may still be null
cleanupDeletes_anyThread(thr) == configured

\* the guard of cleanupThread: is threads.del invoked for this thread?
cleanupDeletes(thr) == configured /\ thr # NULL

\* faulty variant: the rejection of threads.del is rethrown
cleanupOutcome_rethrows(ok) == IF ok THEN "return" ELSE "throw"

\* how cleanupThread completes when threads.del resolved (ok) or rejected:
\* the rejection is logged, not rethrown
cleanupOutcome(ok) == "return"

\* faulty variant: the finally block returns a failure result of its own when
\* the deletion was rejected, overriding what try or catch built
finallyResult_overrides(res, ok) ==
  IF ok THEN res ELSE Returned(FailureResult(TransportError("del", 1)))

\* what the call completes with after the finally block, which has no return
\* statement: the completion the try or catch block left pending
finallyResult(res, ok) == res

\* faulty variant: the catch block returns and no finally block runs
afterCatch_returns == "done"

\* where an error thrown out of the try block of analyzeApplication goes:
\* the catch block builds the failure result, then the finally block runs
afterCatch == "finally"

\* faulty variant: the error is passed on to the caller, as the first
\* version of testConnection did
connectionFailure_rethrows(e) == Thrown(e)

\* the catch block of testConnection: warn and return false
connectionFailure(e) == Returned(BoolValue(FALSE))

\* a new call may start when no call is in progress
CanCall == pc \in {"idle", "done"}

\* a call of the named method has completed
Done(name) == op = name /\ pc = "done"

\* entry of every call: the per-call observation variables start afresh
Enter(name) ==
  /\ CanCall
  /\ op' = name
  /\ entryValid' = isConfigValid
  /\ calls' = NoCalls
  /\ anyOk' = FALSE
  /\ faults' = 0
  /\ lastStatus' = "none"
  /\ lastError' = ""
  /\ onlyWaiting' = TRUE
  /\ steps' = <<>>
  /\ delays' = <<>>
  /\ i' = 0
  /\ attempt' = 0
  /\ thread' = NULL

\* an error e leaves the code at the current await point
Raise(e) ==
  IF op = "analyzeApplication"
    THEN /\ result' = Returned(FailureResult(e))
         /\ pc' = afterCatch
    ELSE IF op = "testConnection"
      THEN /\ result' = connectionFailure(e)
           /\ pc' = "done"
      ELSE /\ result' = Thrown(e)
           /\ pc' = "done"

Count(o) == calls' = [calls EXCEPT ![o] = @ + 1]

\* the record of an invocation of remote operation o that succeeded or not
Logged(o, ok) ==
  (IF o \in {steps[k] : k \in DOMAIN steps} THEN steps ELSE Append(steps, o))
    \o (IF ok THEN <<"ok">> ELSE <<>>)

\* an invocation of the remote operation o inside retry() was rejected
Failed(o) ==
  /\ faults' = faults + 1
  /\ steps' = Logged(o, FALSE)
  /\ delays' = IF retryNext(i, maxRetries, FALSE) = "sleep"
                 THEN Append(delays, retryDelay(i))
                 ELSE delays
  /\ UNCHANGED anyOk
  /\ IF retryNext(i, maxRetries, FALSE) = "throw"
       THEN /\ Raise(TransportError(o, calls[o] + 1))
            /\ i' = 0
       ELSE IF i + 1 < maxRetries
         THEN /\ i' = i + 1
              /\ UNCHANGED <<pc, result>>
         ELSE \* the for loop ends: retry() returns undefined, and the
              \* caller reads a property of it (post ignores the value)
              /\ i' = 0
              /\ IF op = "retry"
                   THEN pc' = "done" /\ result' = Returned(UndefinedValue)
                   ELSE IF o = "post"
                     THEN pc' = "run" /\ UNCHANGED result
                     ELSE Raise(TypeError)

\* ------------------------------------------------------------------------
\* retry(operation, maxRetries) called directly with a fake operation
\* ------------------------------------------------------------------------
retry ==
  \E maxR \in 0..MaxRetriesArg, pl \in [1..MaxRetriesArg -> BOOLEAN] :
    /\ Enter("retry")
    /\ maxRetries' = maxR
    /\ plan' = pl
    /\ IF ~configured
         THEN /\ result' = Returned(NullValue)
              /\ pc' = "done"
         ELSE IF ~(0 < maxR)
           THEN /\ result' = Returned(UndefinedValue)
                /\ pc' = "done"
           ELSE /\ result' = NoResult
                /\ pc' = "operation"
    /\ UNCHANGED <<extVars, serviceVars, remoteVars, maxAttempts>>

\* `return await operation()` inside the loop of a direct retry()
operation ==
  /\ op = "retry"
  /\ pc = "operation"
  /\ Count("op")
  /\ IF plan[calls["op"] + 1]
       THEN /\ result' = Returned([type |-> "value", seq |-> calls["op"] + 1])
            /\ pc' = "done"
            /\ anyOk' = TRUE
            /\ steps' = Logged("op", TRUE)
            /\ UNCHANGED delays
            /\ UNCHANGED <<faults, i>>
       ELSE Failed("op")
  /\ UNCHANGED <<extVars, serviceVars, remoteVars, op, entryValid, maxRetries,
                 maxAttempts, attempt, thread, plan, lastStatus, lastError, onlyWaiting>>

\* ------------------------------------------------------------------------
\* waitForCompletion(threadId, runId, maxAttempts)
\* ------------------------------------------------------------------------
\* called directly
waitForCompletion ==
  \E maxA \in 0..MaxAttemptsArg :
    /\ Enter("waitForCompletion")
    /\ maxAttempts' = maxA
    /\ maxRetries' = MAX_RETRIES
    /\ IF ~configured
         THEN /\ result' = Returned(NullValue)
              /\ pc' = "done"
         ELSE IF ~(0 < maxA)
           THEN /\ result' = Thrown(TimeoutError)
                /\ pc' = "done"
           ELSE /\ result' = NoResult
                /\ pc' = "retrieve"
    /\ UNCHANGED <<extVars, serviceVars, remoteVars, plan>>

\* one runs.retrieve inside retry() inside the polling loop, and the switch
\* on the status it returned
runs_retrieve ==
  /\ pc = "retrieve"
  /\ configured
  /\ Count("retrieve")
  /\ \/ /\ faults < MaxFaults
        /\ Failed("retrieve")
        /\ UNCHANGED <<attempt, lastStatus, lastError, onlyWaiting>>
     \/ \E status \in Statuses, last_error \in LastErrors :
          /\ anyOk' = TRUE
          /\ steps' = Logged("retrieve", statusCase(status) = "return")
          /\ delays' = <<>>
          /\ lastStatus' = status
          /\ lastError' = last_error
          /\ onlyWaiting' = (onlyWaiting /\ statusCase(status) = "sleep")
          /\ i' = 0
          /\ UNCHANGED faults
          /\ CASE statusCase(status) = "return" ->
                    /\ UNCHANGED attempt
                    /\ IF op = "analyzeApplication"
                         THEN pc' = "list" /\ UNCHANGED result
                         ELSE /\ pc' = "done"
                              /\ result' = Returned([type |-> "run",
                                                     status |-> status])
               [] statusCase(status) = "throw" ->
                    /\ UNCHANGED attempt
                    /\ Raise(RunError(status, last_error))
               [] statusCase(status) = "sleep" ->
                    IF pollNext(attempt, maxAttempts) = "again"
                      THEN /\ attempt' = attempt + 1
                           /\ UNCHANGED <<pc, result>>
                      ELSE /\ UNCHANGED attempt
                           /\ Raise(TimeoutError)
               [] OTHER ->
                    /\ UNCHANGED attempt
                    /\ Raise(UnknownStatusError(status))
  /\ UNCHANGED <<extVars, serviceVars, remoteVars, op, entryValid, maxRetries,
                 maxAttempts, thread, plan>>

\* ------------------------------------------------------------------------
\* analyzeApplication(cvText, jobDescription)
\* ------------------------------------------------------------------------
\* entry: the fallback result without configuration, else the try block
analyzeApplication ==
  /\ Enter("analyzeApplication")
  /\ maxRetries' = MAX_RETRIES
  /\ maxAttempts' = MAX_ATTEMPTS
  /\ IF ~configured
       THEN /\ result' = Returned(FallbackResult)
            /\ pc' = "done"
       ELSE /\ created < MaxContexts
            /\ result' = NoResult
            /\ pc' = "create"
  /\ UNCHANGED <<extVars, serviceVars, remoteVars, plan>>

\* threads.create inside retry()
threads_create ==
  /\ pc = "create"
  /\ configured
  /\ Count("create")
  /\ \/ /\ faults < MaxFaults
        /\ Failed("create")
        /\ UNCHANGED <<thread, remoteVars>>
     \/ /\ anyOk' = TRUE
        /\ steps' = Logged("create", TRUE)
        /\ delays' = <<>>
        /\ created' = created + 1
        /\ live' = live \cup {created + 1}
        /\ thread' = created + 1
        /\ pc' = "post"
        /\ i' = 0
        /\ UNCHANGED <<faults, result, delCalls>>
  /\ UNCHANGED <<extVars, serviceVars, op, entryValid, maxRetries, maxAttempts,
                 attempt, plan, lastStatus, lastError, onlyWaiting>>

\* threads.messages.create(thread.id, prompt) inside retry()
messages_create ==
  /\ pc = "post"
  /\ configured
  /\ Count("post")
  /\ \/ /\ faults < MaxFaults
        /\ Failed("post")
     \/ /\ anyOk' = TRUE
        /\ steps' = Logged("post", TRUE)
        /\ delays' = <<>>
        /\ pc' = "run"
        /\ i' = 0
        /\ UNCHANGED <<faults, result>>
  /\ UNCHANGED <<extVars, serviceVars, remoteVars, op, entryValid, maxRetries,
                 maxAttempts, attempt, thread, plan, lastStatus, lastError, onlyWaiting>>

\* threads.runs.create(thread.id, assistant) inside retry(), then the entry
\* of waitForCompletion(thread.id, run.id)
runs_create ==
  /\ pc = "run"
  /\ configured
  /\ Count("run")
  /\ \/ /\ faults < MaxFaults
        /\ Failed("run")
     \/ /\ anyOk' = TRUE
        /\ steps' = Logged("run", TRUE)
        /\ delays' = <<>>
        /\ i' = 0
        /\ UNCHANGED faults
        /\ IF 0 < maxAttempts
             THEN pc' = "retrieve" /\ UNCHANGED result
             ELSE Raise(TimeoutError)
  /\ UNCHANGED <<extVars, serviceVars, remoteVars, op, entryValid, maxRetries,
                 maxAttempts, attempt, thread, plan, lastStatus, lastError, onlyWaiting>>

\* threads.messages.list(thread.id) inside retry(), then the rest of the
\* try block: read the text, parse the score, validate, build the result
messages_list ==
  /\ pc = "list"
  /\ configured
  /\ Count("list")
  /\ \/ /\ faults < MaxFaults
        /\ Failed("list")
     \/ \E messages \in ListResponses :
          /\ anyOk' = TRUE
          /\ steps' = Logged("list", TRUE)
          /\ delays' = <<>>
          /\ i' = 0
          /\ UNCHANGED faults
          /\ IF messages.hasText
               THEN /\ result' = Returned(SuccessResult(messages.text))
                    /\ pc' = "finally"
               ELSE Raise(TypeError)
  /\ UNCHANGED <<extVars, serviceVars, remoteVars, op, entryValid, maxRetries,
                 maxAttempts, attempt, thread, plan, lastStatus, lastError, onlyWaiting>>

\* ------------------------------------------------------------------------
\* testConnection()
\* ------------------------------------------------------------------------
\* entry: true without configuration, false without a client, else the probe
testConnection ==
  /\ Enter("testConnection")
  /\ IF ~configured
       THEN /\ result' = Returned(BoolValue(TRUE))
            /\ pc' = "done"
       ELSE IF client = "undefined"
         THEN /\ result' = Returned(BoolValue(FALSE))
              /\ pc' = "done"
         ELSE /\ created < MaxContexts
              /\ result' = NoResult
              /\ pc' = "probe"
  /\ UNCHANGED <<extVars, serviceVars, remoteVars, maxRetries, maxAttempts, plan>>

\* `await this.client.beta.threads.create()` of testConnection: one
\* invocation, not wrapped in retry(); then cleanupThread({id: thread.id})
threads_create_once ==
  /\ op = "testConnection"
  /\ pc = "probe"
  /\ Count("create")
  /\ \/ /\ faults' = faults + 1
        /\ Raise(TransportError("create", 1))
        /\ UNCHANGED <<anyOk, thread, remoteVars>>
        /\ steps' = Logged("create", FALSE)
        /\ UNCHANGED delays
     \/ /\ anyOk' = TRUE
        /\ steps' = Logged("create", TRUE)
        /\ UNCHANGED delays
        /\ created' = created + 1
        /\ live' = live \cup {created + 1}
        /\ thread' = created + 1
        /\ pc' = "finally"
        /\ UNCHANGED <<faults, result, delCalls>>
  /\ UNCHANGED <<extVars, serviceVars, op, entryValid, maxRetries, maxAttempts, i,
                 attempt, plan, lastStatus, lastError, onlyWaiting>>

\* what the caller of cleanupThread completes with once cleanupThread has
\* returned or thrown: testConnection goes on to `return true` (or to its
\* catch block), analyzeApplication leaves its finally block
afterCleanup(outcome, ok) ==
  IF op = "testConnection"
    THEN IF outcome = "return" THEN Returned(BoolValue(TRUE))
         ELSE connectionFailure(TransportError("del", 1))
    ELSE IF outcome = "return" THEN finallyResult(result, ok)
         ELSE Thrown(TransportError("del", 1))

\* cleanupThread(thread), one threads.del without retry, called from the
\* finally block of analyzeApplication and from testConnection; then the
\* caller completes
cleanupThread ==
  /\ pc = "finally"
  /\ pc' = "done"
  /\ IF ~cleanupDeletes(thread)
       THEN /\ UNCHANGED <<calls, anyOk, faults, steps, remoteVars>>
            /\ result' = afterCleanup("return", TRUE)
       ELSE /\ Count("del")
            /\ delCalls' = IF thread \in DOMAIN delCalls
                             THEN [delCalls EXCEPT ![thread] = @ + 1]
                             ELSE delCalls
            /\ UNCHANGED created
            /\ \E ok \in BOOLEAN :
                 /\ live' = IF ok THEN live \ {thread} ELSE live
                 /\ anyOk' = (anyOk \/ ok)
                 /\ steps' = Logged("del", ok)
                 /\ (~ok => faults < MaxFaults)
                 /\ faults' = IF ok THEN faults ELSE faults + 1
                 /\ result' = afterCleanup(cleanupOutcome(ok), ok)
  /\ isConfigValid' = flagAfterCall(isConfigValid)
  /\ UNCHANGED <<extVars, env, client, assistantId, op, entryValid,
                 maxRetries, maxAttempts, i,
                 attempt, thread, plan, lastStatus, lastError, onlyWaiting,
                 delays>>

\* the service used through analyzeApplication
Next ==
  \/ initialize
  \/ analyzeApplication
  \/ threads_create
  \/ messages_create
  \/ runs_create
  \/ runs_retrieve
  \/ messages_list
  \/ cleanupThread

Spec == Init /\ [][Next]_vars


\* one analyzeApplication call of a freshly loaded service, where every
\* network call in flight eventually returns or fails and the continuation
\* after an await eventually runs
analyzeApplication_once == op = "none" /\ analyzeApplication

NextOnce ==
  \/ initialize
  \/ analyzeApplication_once
  \/ threads_create
  \/ messages_create
  \/ runs_create
  \/ runs_retrieve
  \/ messages_list
  \/ cleanupThread

SpecOnce == Init /\ [][NextOnce]_vars /\ WF_vars(NextOnce)

\* retry() called directly with a fake operation
NextRetry ==
  \/ initialize
  \/ retry
  \/ operation

SpecRetry == Init /\ [][NextRetry]_vars

\* waitForCompletion() called directly against a fake status source
NextWait ==
  \/ initialize
  \/ waitForCompletion
  \/ runs_retrieve

SpecWait == Init /\ [][NextWait]_vars

\* ------------------------------------------------------------------------
\* Concurrent analyzeApplication calls on the one service instance.  Each
\* call has its own frame; a step of a call is one remote operation settling
\* and the code up to the next await.  The pass counter of the polling loop
\* is left out of the frame: whether a waiting status is followed by another
\* pass or by the timeout is a free choice here.
\* ------------------------------------------------------------------------
\* faulty variant: the context is kept in a field of the shared service
\* object, which holds the context created last
threadOf_shared(c) == created

\* `let thread = null` is a local variable of the call
threadOf(c) == frames[c].thread

\* the frame after error e was thrown inside the try block
FrameRaise(f, e) ==
  [f EXCEPT !.pc = afterCatch, !.i = 0,
            !.result = Returned(FailureResult(e))]

\* faulty variant: the whole try block is retried, so a step that is tried
\* again starts from the creation of a context
FrameFailed_recreates(f, o) ==
  IF retryNext(f.i, MAX_RETRIES, FALSE) = "throw"
    THEN FrameRaise(f, TransportError(o, f.i + 1))
  ELSE IF f.i + 1 < MAX_RETRIES THEN [f EXCEPT !.i = @ + 1, !.pc = "create"]
  ELSE IF o = "post" THEN [f EXCEPT !.i = 0, !.pc = "run"]
  ELSE FrameRaise(f, TypeError)

\* the frame after an invocation of operation o inside retry() was rejected
FrameFailed(f, o) ==
  IF retryNext(f.i, MAX_RETRIES, FALSE) = "throw"
    THEN FrameRaise(f, TransportError(o, f.i + 1))
  ELSE IF f.i + 1 < MAX_RETRIES THEN [f EXCEPT !.i = @ + 1]
  ELSE IF o = "post" THEN [f EXCEPT !.i = 0, !.pc = "run"]
  ELSE FrameRaise(f, TypeError)

\* call c issues operation o on the context it refers to
Issue(c, o) ==
  refs' = refs \cup {[call |-> c, op |-> o, ctx |-> threadOf(c)]}

conc_analyzeApplication(c) ==
  /\ frames[c].pc = "idle"
  /\ frames' = [frames EXCEPT ![c] =
       IF ~configured
         THEN [@ EXCEPT !.pc = "done", !.result = Returned(FallbackResult)]
         ELSE [@ EXCEPT !.pc = "create"]]
  /\ UNCHANGED <<serviceVars, remoteVars, callVars, server, request, owner,
                 refs, parseVars, validatorVars>>

conc_threads_create(c) ==
  /\ frames[c].pc = "create"
  /\ configured
  /\ \/ /\ frames' = [frames EXCEPT ![c] = FrameFailed(@, "create")]
        /\ UNCHANGED <<remoteVars, owner>>
     \/ /\ created < MaxContexts
        /\ created' = created + 1
        /\ live' = live \cup {created + 1}
        /\ owner' = Append(owner, c)
        /\ frames' = [frames EXCEPT ![c] =
             [@ EXCEPT !.thread = created + 1, !.pc = "post", !.i = 0]]
        /\ UNCHANGED delCalls
  /\ UNCHANGED <<serviceVars, callVars, server, request, refs, parseVars, validatorVars>>

conc_messages_create(c) ==
  /\ frames[c].pc = "post"
  /\ configured
  /\ Issue(c, "post")
  /\ \/ frames' = [frames EXCEPT ![c] = FrameFailed(@, "post")]
     \/ frames' = [frames EXCEPT ![c] =
          [@ EXCEPT !.pc = "run", !.i = 0]]
  /\ UNCHANGED <<serviceVars, remoteVars, callVars, server, request, owner,
                 parseVars, validatorVars>>

conc_runs_create(c) ==
  /\ frames[c].pc = "run"
  /\ configured
  /\ Issue(c, "run")
  /\ \/ frames' = [frames EXCEPT ![c] = FrameFailed(@, "run")]
     \/ frames' = [frames EXCEPT ![c] =
          [@ EXCEPT !.pc = "retrieve", !.i = 0]]
  /\ UNCHANGED <<serviceVars, remoteVars, callVars, server, request, owner,
                 parseVars, validatorVars>>

conc_runs_retrieve(c) ==
  /\ frames[c].pc = "retrieve"
  /\ configured
  /\ Issue(c, "retrieve")
  /\ \/ frames' = [frames EXCEPT ![c] = FrameFailed(@, "retrieve")]
     \/ \E status \in Statuses, last_error \in LastErrors, again \in BOOLEAN :
          LET f == [frames[c] EXCEPT !.i = 0]
          IN frames' = [frames EXCEPT ![c] =
               CASE statusCase(status) = "return" -> [f EXCEPT !.pc = "list"]
                 [] statusCase(status) = "throw" ->
                      FrameRaise(f, RunError(status, last_error))
                 [] statusCase(status) = "sleep" ->
                      IF again THEN f ELSE FrameRaise(f, TimeoutError)
                 [] OTHER -> FrameRaise(f, UnknownStatusError(status))]
  /\ UNCHANGED <<serviceVars, remoteVars, callVars, server, request, owner,
                 parseVars, validatorVars>>

\* what messages.list resolves to when calls are interleaved: the
\* well-formed text, or a list without usable text
ConcResponses ==
  {r \in ListResponses : r.text = WellFormed72 \/ ~r.hasText}

conc_messages_list(c) ==
  /\ frames[c].pc = "list"
  /\ configured
  /\ Issue(c, "list")
  /\ \/ frames' = [frames EXCEPT ![c] = FrameFailed(@, "list")]
     \/ \E messages \in ConcResponses :
          LET f == [frames[c] EXCEPT !.i = 0]
          IN frames' = [frames EXCEPT ![c] =
               IF messages.hasText
                 THEN [f EXCEPT !.pc = "finally",
                         !.result = Returned(SuccessResult(messages.text))]
                 ELSE FrameRaise(f, TypeError)]
  /\ UNCHANGED <<serviceVars, remoteVars, callVars, server, request, owner,
                 parseVars, validatorVars>>

conc_cleanupThread(c) ==
  /\ frames[c].pc = "finally"
  /\ IF ~cleanupDeletes(threadOf(c))
       THEN /\ frames' = [frames EXCEPT ![c].pc = "done"]
            /\ UNCHANGED <<remoteVars, refs>>
       ELSE /\ Issue(c, "del")
            /\ delCalls' = IF threadOf(c) \in DOMAIN delCalls
                             THEN [delCalls EXCEPT ![threadOf(c)] = @ + 1]
                             ELSE delCalls
            /\ UNCHANGED created
            /\ \E ok \in BOOLEAN :
                 /\ live' = IF ok THEN live \ {threadOf(c)} ELSE live
                 /\ frames' = [frames EXCEPT ![c] =
                      [@ EXCEPT !.pc = "done",
                         !.result = IF cleanupOutcome(ok) = "return"
                                      THEN finallyResult(@, ok)
                                    ELSE Thrown(TransportError("del", 1))]]
  /\ UNCHANGED <<serviceVars, callVars, server, request, owner, parseVars, validatorVars>>

NextConc ==
  \/ initialize
  \/ \E c \in Calls : conc_analyzeApplication(c)
  \/ \E c \in Calls : conc_threads_create(c)
  \/ \E c \in Calls : conc_messages_create(c)
  \/ \E c \in Calls : conc_runs_create(c)
  \/ \E c \in Calls : conc_runs_retrieve(c)
  \/ \E c \in Calls : conc_messages_list(c)
  \/ \E c \in Calls : conc_cleanupThread(c)

SpecConc == Init /\ [][NextConc]_vars

\* ------------------------------------------------------------------------
\* The parsers called on their own with a text
\* ------------------------------------------------------------------------
\* the tokens the texts are made of: the score label, whitespace, a minus
\* sign, the two headers, a word, and digit runs below, at and above 100
Alphabet == {MS, WS, MINUS, H1, H2, WORD, 5, 100, 150}

\* strings of at most MaxLen tokens; two digit runs or two whitespace runs
\* next to each other would be one run
Texts ==
  {t \in UNION {[1..n -> Alphabet] : n \in 0..MaxLen} :
     \A k \in 1..(Len(t) - 1) :
       /\ ~(t[k] >= 0 /\ t[k + 1] >= 0)
       /\ ~(t[k] = WS /\ t[k + 1] = WS)}

InitParse ==
  /\ env = [isValid |-> TRUE, assistantId |-> TRUE]
  /\ InitService
  /\ credentials = NoCredentials
  /\ server = "none"
  /\ request = NoRequest
  /\ text \in Texts

\* this.parseMatchScore(text)
parseMatchScore_call ==
  /\ parsed = NoResult
  /\ parsed' = Returned([type |-> "score", score |-> parseMatchScore(text)])
  /\ UNCHANGED <<serviceVars, remoteVars, callVars, server, request,
                 concVars, text, validatorVars>>

\* this.parseAnalysisResponse(text)
parseAnalysisResponse_call ==
  /\ parsed = NoResult
  /\ parsed' = Returned([type |-> "parts",
                          parts |-> parseAnalysisResponse(text)])
  /\ UNCHANGED <<serviceVars, remoteVars, callVars, server, request,
                 concVars, text, validatorVars>>

NextParse ==
  \/ parseMatchScore_call
  \/ parseAnalysisResponse_call

SpecParse == InitParse /\ [][NextParse]_vars


\* ------------------------------------------------------------------------
\* Process startup: module loading, then startServer() of server.js
\* ------------------------------------------------------------------------
\* how a credential can be set in the environment
CredentialStates == {"absent", "malformed", "valid"}

\* validateOpenAIConfig: no issue is found iff both credentials are there
\* and carry their prefix
validateOpenAIConfig(e) == e.apiKey = "valid" /\ e.orgId = "valid"

\* the environments a server process can be started in: the two AI
\* credentials, the three required variables, the assistant id
ServerEnvs ==
  {e \in [apiKey : CredentialStates, orgId : CredentialStates,
          required : BOOLEAN, assistantId : BOOLEAN, isValid : BOOLEAN] :
     e.isValid = validateOpenAIConfig(e)}

\* a server process at the start of module loading
InitServer ==
  /\ env \in ServerEnvs
  /\ InitService
  /\ credentials = NoCredentials
  /\ server = "loading"
  /\ request = NoRequest
  /\ text = <<>>

\* formatApiKey(process.env.OPENAI_API_KEY), evaluated while openaiConfig.js
\* loads: does it throw?
formatApiKeyThrows(e) == e.apiKey = "absent"

\* validateConfig() of server.js: does it throw?
validateConfigThrows(e) ==
  \/ ~e.required
  \/ /\ e.apiKey # "absent"
     /\ (e.apiKey # "valid" \/ e.orgId # "valid")

\* evaluation of the modules server.js imports; an exception thrown by a
\* module body ends the process before startServer() is reached
load_modules ==
  /\ server = "loading"
  /\ server' = IF formatApiKeyThrows(env) THEN "crashed" ELSE "loaded"
  /\ UNCHANGED <<serviceVars, remoteVars, callVars, request, concVars,
                 parseVars, validatorVars>>

\* startServer() up to the connection tests: validateConfig() throws into
\* the catch block, which calls process.exit(1); validateAssistantService()
\* and testOpenAIConnection() catch their own errors
startServer ==
  /\ server = "loaded"
  /\ server' = IF validateConfigThrows(env) THEN "exited"
               ELSE IF env.apiKey # "absent" THEN "testing"
               ELSE "tested"
  /\ UNCHANGED <<serviceVars, remoteVars, callVars, request, concVars,
                 parseVars, validatorVars>>

\* `await assistantService.testConnection()` in startServer()
startServer_testConnection ==
  /\ server = "testing"
  /\ op # "testConnection"
  /\ testConnection

\* app.listen(PORT) once the connection tests are over or were skipped
app_listen ==
  /\ \/ server = "tested"
     \/ server = "testing" /\ op = "testConnection" /\ pc = "done"
  /\ server' = IF result.kind = "throw" THEN "exited" ELSE "listening"
  /\ UNCHANGED <<serviceVars, remoteVars, callVars, request, concVars,
                 parseVars, validatorVars>>

NextServer ==
  \/ load_modules
  \/ initialize
  \/ startServer
  \/ startServer_testConnection
  \/ threads_create_once
  \/ cleanupThread
  \/ app_listen

SpecServer == InitServer /\ [][NextServer]_vars

\* ------------------------------------------------------------------------
\* postApplication of applicationController.js, for one submission
\* ------------------------------------------------------------------------
\* what a submission can look like: the role of the user, the resume file,
\* whether a job id was sent and names a job, whether the cover letter and
\* the other body fields (name, email, phone, address) are filled in
Requests ==
  [role : {"Employer", "Job Seeker"}, resume : {"none", "bad type", "ok"},
   jobId : BOOLEAN, jobFound : BOOLEAN, coverLetter : BOOLEAN,
   fields : BOOLEAN]

NoAnalysis == [kind |-> "pending"]
NoApplication == [type |-> "none"]
NoResponse == [status |-> 0]
StringValue(t) == [type |-> "string", value |-> t]

\* a request as it reaches the handler
NewRequest(q) ==
  [pc |-> "received", in |-> q, storeFailed |-> FALSE, ai |-> NoAnalysis,
   resumeStored |-> FALSE, application |-> NoApplication,
   response |-> NoResponse]

\* the server listens and one submission has arrived
InitPost ==
  /\ env \in [isValid : BOOLEAN, assistantId : BOOLEAN]
  /\ InitService
  /\ credentials = NoCredentials
  /\ server = "listening"
  /\ request \in {NewRequest(q) : q \in Requests}
  /\ text = <<>>

\* res.status(200).json({success: true, ...}), or next(new ErrorHandler(..))
\* answered by the error middleware with success false
Respond(status, message) ==
  [status |-> status, success |-> (status = 200), message |-> message]

Answer(r, status, message) ==
  [r EXCEPT !.pc = "responded", !.response = Respond(status, message)]

\* an awaited storage call rejected: the outer catch answers 500
StoreError(r) ==
  [Answer(r, 500, "store error") EXCEPT !.storeFailed = TRUE]

\* new ErrorHandler(result.error || 'Analysis failed', 500)
AnalysisError(e) ==
  [name |-> "ErrorHandler", message |-> e, statusCode |-> 500]

\* result.analysis.split(/2\.\s*CANDIDATE FEEDBACK EMAIL:|---/i)[0]
\*   .replace(/1\.\s*INTERNAL RECRUITER ANALYSIS:/i, '').trim()
recruiterSection(analysis) ==
  LET ks == {k \in DOMAIN analysis : analysis[k] \in {H2, SEP}}
  IN Trim(RemoveFirst(IF ks = {} THEN analysis
                      ELSE SubSeq(analysis, 1, SetMin(ks) - 1), H1))

\* analyzeWithOpenAI, from the completion of analyzeApplication to its own:
\* an unsuccessful result is thrown as an error, a successful one is
\* returned with the recruiter section cut out (result.candidateEmail is not
\* a field of the result)
analyzeWithOpenAI(res) ==
  IF res.kind = "throw" THEN res
  ELSE IF ~res.value.success THEN Thrown(AnalysisError(res.value.error))
  ELSE Returned([success |-> TRUE,
                 recruiterAnalysis |-> recruiterSection(res.value.analysis),
                 candidateEmail |-> UndefinedValue,
                 score |-> res.value.score])

\* "Analysis pending manual review."
PendingReview ==
  [recruiterAnalysis |-> <<WORD, WS, WORD, WS, MANUAL>>,
   candidateEmail |-> StringValue(<<WORD, WS, WORD, WS, WORD>>), score |-> 0]

\* "Analysis failed - manual review required."
FailedReview ==
  [recruiterAnalysis |-> <<WORD, WS, WORD, WS, MANUAL, WS, WORD>>,
   candidateEmail |-> StringValue(<<WORD, WS, WORD>>), score |-> 0]

\* faulty variant: the error of the analysis is passed on to the outer
\* catch block
aiAnalysisResult_rethrows(outcome) ==
  IF outcome.kind = "throw" THEN outcome
  ELSE IF ~outcome.value.success THEN Returned(PendingReview)
  ELSE outcome

\* the inner try/catch of postApplication around analyzeWithOpenAI
aiAnalysisResult(outcome) ==
  IF outcome.kind = "throw" THEN Returned(FailedReview)
  ELSE IF ~outcome.value.success THEN Returned(PendingReview)
  ELSE outcome

\* postApplication from the outcome of analyzeWithOpenAI to its next await:
\* the analysis fields are chosen, then the body fields are validated
afterAnalysis(r, outcome) ==
  LET ai == aiAnalysisResult(outcome)
  IN IF ai.kind = "throw" THEN Answer(r, 500, "analysis error")
     ELSE IF ~(r.in.coverLetter /\ r.in.fields)
       THEN [Answer(r, 400, "Please fill all fields.") EXCEPT !.ai = ai.value]
     ELSE [r EXCEPT !.pc = "create", !.ai = ai.value]

\* entry of postApplication up to `await uploadToGridFS(resume)`
postApplication ==
  /\ request.pc = "received"
  /\ request' =
       IF request.in.role = "Employer"
         THEN Answer(request, 400, "Employer not allowed")
       ELSE IF request.in.resume = "none"
         THEN Answer(request, 400, "Resume File Required!")
       ELSE IF request.in.resume = "bad type"
         THEN Answer(request, 400, "Invalid file type")
       ELSE [request EXCEPT !.pc = "upload"]
  /\ UNCHANGED <<serviceVars, remoteVars, callVars, server, concVars,
                 parseVars, validatorVars>>

\* uploadToGridFS settles; then the job id check up to `await Job.findById`
uploadToGridFS ==
  /\ request.pc = "upload"
  /\ \E ok \in BOOLEAN :
       request' = IF ~ok THEN StoreError(request)
                  ELSE IF ~request.in.jobId
                    THEN [Answer(request, 404, "Job not found!") EXCEPT
                            !.resumeStored = TRUE]
                  ELSE [request EXCEPT !.pc = "findJob",
                                       !.resumeStored = TRUE]
  /\ UNCHANGED <<serviceVars, remoteVars, callVars, server, concVars,
                 parseVars, validatorVars>>

\* Job.findById settles; then analyzeWithOpenAI(coverLetter, description) up
\* to its await: reading cvText.length of a missing cover letter throws
Job_findById ==
  /\ request.pc = "findJob"
  /\ \E ok \in BOOLEAN :
       request' = IF ~ok THEN StoreError(request)
                  ELSE IF ~request.in.jobFound
                    THEN Answer(request, 404, "Job not found!")
                  ELSE IF ~request.in.coverLetter
                    THEN afterAnalysis(request, Thrown(TypeError))
                  ELSE [request EXCEPT !.pc = "analyze"]
  /\ UNCHANGED <<serviceVars, remoteVars, callVars, server, concVars,
                 parseVars, validatorVars>>

\* `await assistantService.analyzeApplication(cvText, jobDescription)`
analyzeWithOpenAI_call ==
  /\ request.pc = "analyze"
  /\ pc = "idle"
  /\ analyzeApplication

\* analyzeApplication has completed: the rest of analyzeWithOpenAI and of
\* the inner try/catch, then the field validation
analyzeWithOpenAI_return ==
  /\ request.pc = "analyze"
  /\ Done("analyzeApplication")
  /\ request' = afterAnalysis(request, analyzeWithOpenAI(result))
  /\ UNCHANGED <<serviceVars, remoteVars, callVars, server, concVars,
                 parseVars, validatorVars>>

\* Application.create settles; then the success response
Application_create ==
  /\ request.pc = "create"
  /\ \E ok \in BOOLEAN :
       request' =
         IF ~ok THEN StoreError(request)
         ELSE [Answer(request, 200, "Application Submitted!") EXCEPT
                 !.application =
                   [type |-> "Application",
                    analysis |-> request.ai.recruiterAnalysis,
                    candidateEmail |-> request.ai.candidateEmail,
                    emailSent |-> FALSE,
                    matchScore |-> request.ai.score]]
  /\ UNCHANGED <<serviceVars, remoteVars, callVars, server, concVars,
                 parseVars, validatorVars>>

NextPost ==
  \/ initialize
  \/ postApplication
  \/ uploadToGridFS
  \/ Job_findById
  \/ analyzeWithOpenAI_call
  \/ threads_create
  \/ messages_create
  \/ runs_create
  \/ runs_retrieve
  \/ messages_list
  \/ cleanupThread
  \/ analyzeWithOpenAI_return
  \/ Application_create

SpecPost == InitPost /\ [][NextPost]_vars


\* ---- the two places where an assistant text is cut into sections ----

\* the substrings the two split expressions and the claim tell apart
SplitAlphabet == {H1, H2, SUBJ, SEP, WS, WORD}

\* strings of at most MaxLen tokens; two whitespace runs next to each other
\* would be one run
SplitTexts ==
  {t \in UNION {[1..n -> SplitAlphabet] : n \in 0..MaxLen} :
     \A k \in 1..(Len(t) - 1) : ~(t[k] = WS /\ t[k + 1] = WS)}

InitSplit ==
  /\ env = [isValid |-> TRUE, assistantId |-> TRUE]
  /\ InitService
  /\ credentials = NoCredentials
  /\ server = "none"
  /\ request = NoRequest
  /\ text \in SplitTexts

\* result.analysis.split(/2\.\s*CANDIDATE FEEDBACK EMAIL:|---/i)[0] with the
\* first header removed, trimmed
recruiterSection_call ==
  /\ parsed = NoResult
  /\ parsed' = Returned([type |-> "section",
                          section |-> recruiterSection(text)])
  /\ UNCHANGED <<serviceVars, remoteVars, callVars, server, request,
                 concVars, text, validatorVars>>

NextSplit ==
  \/ parseAnalysisResponse_call
  \/ recruiterSection_call

SpecSplit == InitSplit /\ [][NextSplit]_vars


\* ------------------------------------------------------------------------
\* sendFeedbackEmail of applicationController.js, for one request on one
\* stored application
\* ------------------------------------------------------------------------
\* `!value` is false: a string that is not empty
Truthy(v) == v.type = "string" /\ v.value # <<>>

\* the applications a request can find stored: with or without a candidate
\* email, sent or not
StoredApplications ==
  [type : {"Application"}, analysis : {<<WORD>>},
   candidateEmail : {UndefinedValue, StringValue(<<WORD>>)},
   emailSent : BOOLEAN,
   sentEmail : {UndefinedValue, StringValue(<<WORD>>)},
   matchScore : {0}]

\* req.body.customEmail: absent, empty, a text; whether the application id
\* names an application and its jobId a job
SendRequests ==
  [customEmail : {UndefinedValue, StringValue(<<>>),
                  StringValue(<<WORD, WS, WORD>>)},
   found : BOOLEAN, jobFound : BOOLEAN]

\* a feedback request as it reaches its handler: `before` is the stored
\* application at that time, `application` the stored one now, `doc` the
\* document the handler holds in memory
NewFeedback(handler, q, app) ==
  [pc |-> "received", handler |-> handler, in |-> q, before |-> app,
   application |-> app, doc |-> NoApplication, mailed |-> FALSE,
   ai |-> NoAnalysis, response |-> NoResponse]

InitSend ==
  /\ env = [isValid |-> TRUE, assistantId |-> TRUE]
  /\ InitService
  /\ credentials = NoCredentials
  /\ server = "listening"
  /\ request \in {NewFeedback("sendFeedbackEmail", q, app) :
                    q \in SendRequests, app \in StoredApplications}
  /\ text = <<>>

\* faulty variant: a standard text is sent when there is nothing to send
emailContent_standard(customEmail, app) ==
  IF Truthy(customEmail) THEN customEmail
  ELSE IF Truthy(app.candidateEmail) THEN app.candidateEmail
  ELSE StringValue(<<WORD>>)

\* customEmail || application.candidateEmail
emailContent(customEmail, app) ==
  IF Truthy(customEmail) THEN customEmail ELSE app.candidateEmail

\* Application.findById settles: a rejection goes to the error middleware
\* through catchAsyncErrors, null is answered 404
sendFeedbackEmail ==
  /\ request.handler = "sendFeedbackEmail"
  /\ request.pc = "received"
  /\ \E ok \in BOOLEAN :
       request' = IF ~ok THEN Answer(request, 500, "store error")
                  ELSE IF ~request.in.found
                    THEN Answer(request, 404, "Application not found!")
                  ELSE [request EXCEPT !.pc = "findJob",
                                       !.doc = request.application]
  /\ UNCHANGED <<serviceVars, remoteVars, callVars, server, concVars,
                 parseVars, validatorVars>>

\* Job.findById settles; then emailService.sendFeedbackEmail up to the await
\* of sendEmail: without content it throws, and the catch block answers 500
send_Job_findById ==
  /\ request.handler = "sendFeedbackEmail"
  /\ request.pc = "findJob"
  /\ \E ok \in BOOLEAN :
       request' =
         IF ~ok \/ ~Truthy(emailContent(request.in.customEmail, request.doc))
           THEN Answer(request, 500, "Failed to send feedback email")
         ELSE [request EXCEPT !.pc = "sendEmail"]
  /\ UNCHANGED <<serviceVars, remoteVars, callVars, server, concVars,
                 parseVars, validatorVars>>

\* sendEmail settles (initialize and sendMail): a rejection is rethrown to
\* the catch block of the handler; after a send the document is marked and
\* `await application.save()` starts
emailService_sendEmail ==
  /\ request.handler = "sendFeedbackEmail"
  /\ request.pc = "sendEmail"
  /\ \E ok \in BOOLEAN :
       request' =
         IF ~ok THEN Answer(request, 500, "Failed to send feedback email")
         ELSE [request EXCEPT
                 !.pc = "save",
                 !.mailed = TRUE,
                 !.doc = [request.doc EXCEPT
                            !.emailSent = TRUE,
                            !.sentEmail = emailContent(request.in.customEmail,
                                                       request.doc)]]
  /\ UNCHANGED <<serviceVars, remoteVars, callVars, server, concVars,
                 parseVars, validatorVars>>

\* application.save() settles; then the success response
application_save ==
  /\ request.handler = "sendFeedbackEmail"
  /\ request.pc = "save"
  /\ \E ok \in BOOLEAN :
       request' =
         IF ~ok THEN Answer(request, 500, "Failed to send feedback email")
         ELSE [Answer(request, 200, "Feedback email sent successfully")
                 EXCEPT !.application = request.doc]
  /\ UNCHANGED <<serviceVars, remoteVars, callVars, server, concVars,
                 parseVars, validatorVars>>

NextSend ==
  \/ sendFeedbackEmail
  \/ send_Job_findById
  \/ emailService_sendEmail
  \/ application_save

SpecSend == InitSend /\ [][NextSend]_vars


\* ------------------------------------------------------------------------
\* regenerateFeedback of applicationController.js, for one request on one
\* stored application
\* ------------------------------------------------------------------------
\* whether the application id names an application, its jobId a job, and
\* whether the employer has an active job
RegenRequests == [found : BOOLEAN, jobFound : BOOLEAN, latestJob : BOOLEAN]

\* the stored application of the regeneration requests: its candidate
\* email has been sent, so that every path the update sets can change
RegenApplications ==
  {app \in StoredApplications :
     /\ app.emailSent
     /\ Truthy(app.candidateEmail)
     /\ Truthy(app.sentEmail)}

InitRegen ==
  /\ env \in [isValid : BOOLEAN, assistantId : BOOLEAN]
  /\ InitService
  /\ credentials = NoCredentials
  /\ server = "listening"
  /\ request \in {NewFeedback("regenerateFeedback", q, app) :
                    q \in RegenRequests, app \in RegenApplications}
  /\ text = <<>>

\* what a path holds after {$set: {path: value}}: the value, and for
\* undefined what the installed mongoose makes of it (the key is dropped or
\* null is stored)
SetPath(old, value) ==
  IF value = UndefinedValue THEN {old, NullValue} ELSE {value}

\* Application.findById settles: a rejection goes to the outer catch block
regenerateFeedback ==
  /\ request.handler = "regenerateFeedback"
  /\ request.pc = "received"
  /\ \E ok \in BOOLEAN :
       request' = IF ~ok THEN Answer(request, 500, "store error")
                  ELSE IF ~request.in.found
                    THEN Answer(request, 404, "Application not found!")
                  ELSE [request EXCEPT !.pc = "findJob",
                                       !.doc = request.application]
  /\ UNCHANGED <<serviceVars, remoteVars, callVars, server, concVars,
                 parseVars, validatorVars>>

\* Job.findById(application.jobId) settles: without the job the latest
\* active job of the employer is looked for, with it the analysis starts
regen_Job_findById ==
  /\ request.handler = "regenerateFeedback"
  /\ request.pc = "findJob"
  /\ \E ok \in BOOLEAN :
       request' = IF ~ok THEN Answer(request, 500, "store error")
                  ELSE IF ~request.in.jobFound
                    THEN [request EXCEPT !.pc = "findOne"]
                  ELSE [request EXCEPT !.pc = "analyze"]
  /\ UNCHANGED <<serviceVars, remoteVars, callVars, server, concVars,
                 parseVars, validatorVars>>

\* Job.findOne({postedBy, expired: false}).sort(...) settles
Job_findOne ==
  /\ request.handler = "regenerateFeedback"
  /\ request.pc = "findOne"
  /\ \E ok \in BOOLEAN :
       request' =
         IF ~ok THEN Answer(request, 500, "store error")
         ELSE IF ~request.in.latestJob
           THEN Answer(request, 404, "No active jobs found for analysis")
         ELSE [request EXCEPT !.pc = "analyze"]
  /\ UNCHANGED <<serviceVars, remoteVars, callVars, server, concVars,
                 parseVars, validatorVars>>

\* analyzeApplication has completed: the rest of analyzeWithOpenAI, the
\* inner catch block, the success test, then `await findByIdAndUpdate`
regen_analysis_return ==
  /\ request.handler = "regenerateFeedback"
  /\ request.pc = "analyze"
  /\ Done("analyzeApplication")
  /\ LET outcome == analyzeWithOpenAI(result)
     IN request' =
          IF outcome.kind = "throw"
            THEN Answer(request, 500, "Failed to analyze application")
          ELSE IF ~outcome.value.success
            THEN Answer(request, 500, "Failed to generate new analysis")
          ELSE [request EXCEPT
                  !.pc = "update",
                  !.ai = [recruiterAnalysis |-> outcome.value.recruiterAnalysis,
                          candidateEmail |-> outcome.value.candidateEmail,
                          score |-> outcome.value.score]]
  /\ UNCHANGED <<serviceVars, remoteVars, callVars, server, concVars,
                 parseVars, validatorVars>>

\* Application.findByIdAndUpdate(applicationId, {$set: updates}) settles: it
\* rejects (inner catch block), finds no document, or updates the four paths
Application_findByIdAndUpdate ==
  /\ request.handler = "regenerateFeedback"
  /\ request.pc = "update"
  /\ \/ request' = Answer(request, 500, "Failed to analyze application")
     \/ request' = Answer(request, 500, "Failed to update application")
     \/ \E email \in SetPath(request.application.candidateEmail,
                             request.ai.candidateEmail) :
          request' =
            [Answer(request, 200, "Feedback regenerated successfully") EXCEPT
               !.application =
                 [request.application EXCEPT
                    !.analysis = request.ai.recruiterAnalysis,
                    !.candidateEmail = email,
                    !.matchScore = request.ai.score,
                    !.emailSent = FALSE]]
  /\ UNCHANGED <<serviceVars, remoteVars, callVars, server, concVars,
                 parseVars, validatorVars>>

NextRegen ==
  \/ initialize
  \/ regenerateFeedback
  \/ regen_Job_findById
  \/ Job_findOne
  \/ analyzeWithOpenAI_call
  \/ threads_create
  \/ messages_create
  \/ runs_create
  \/ runs_retrieve
  \/ messages_list
  \/ cleanupThread
  \/ regen_analysis_return
  \/ Application_findByIdAndUpdate

SpecRegen == InitRegen /\ [][NextRegen]_vars


\* ---- validateOpenAIConfig on credential strings ----

\* a string is the sequence of its characters
Str_sk == <<"s", "k", "-">>
Str_proj == <<"p", "r", "o", "j", "-">>
Str_org == <<"o", "r", "g", "-">>
Stars == <<"*", "*", "*">>
Quotes == {"\"", "'"}

\* String.prototype.replace(/["']/g, '')
StripQuotes(s) == SelectSeq(s, LAMBDA c : c \notin Quotes)
\* String.prototype.startsWith
StartsWith(s, p) == Len(s) >= Len(p) /\ SubSeq(s, 1, Len(p)) = p
\* String.prototype.includes, for a single character
Includes(s, c) == \E k \in DOMAIN s : s[k] = c
\* String.prototype.slice(0, n)
SliceHead(s, n) == SubSeq(s, 1, Min2(n, Len(s)))
\* String.prototype.slice(-n)
SliceTail(s, n) == SubSeq(s, Max2(1, Len(s) - n + 1), Len(s))

\* the issues pushed for the API key: missing, or (after the quotes are
\* removed) neither prefix, a space character
apiKeyIssues(raw) ==
  IF raw = <<>> THEN <<"apiKeyMissing">>
  ELSE LET apiKey == StripQuotes(raw)
       IN (IF ~StartsWith(apiKey, Str_sk) /\ ~StartsWith(apiKey, Str_proj)
             THEN <<"apiKeyPrefix">> ELSE <<>>)
          \o (IF Includes(apiKey, " ") THEN <<"apiKeySpaces">> ELSE <<>>)

\* the issues pushed for the organization id
orgIdIssues(raw) ==
  IF raw = <<>> THEN <<"orgIdMissing">>
  ELSE LET orgId == StripQuotes(raw)
       IN (IF ~StartsWith(orgId, Str_org)
             THEN <<"orgIdPrefix">> ELSE <<>>)
          \o (IF Includes(orgId, " ") THEN <<"orgIdSpaces">> ELSE <<>>)

\* `${apiKey.slice(0, 5)}***${apiKey.slice(-4)}`, null for an empty string
maskApiKey(apiKey) ==
  IF apiKey = <<>> THEN NULL
  ELSE SliceHead(apiKey, 5) \o Stars \o SliceTail(apiKey, 4)

\* `org-***${orgId.slice(-4)}`, null for an empty string
maskOrgId(orgId) ==
  IF orgId = <<>> THEN NULL ELSE Str_org \o Stars \o SliceTail(orgId, 4)

\* the object validateOpenAIConfig returns for the credentials c it found
\* in the environment or, failing that, in config.env
configReport(c) ==
  LET issues == apiKeyIssues(c.apiKey) \o orgIdIssues(c.orgId)
  IN [isValid |-> Len(issues) = 0,
      issues |-> issues,
      config |-> [apiKey |-> maskApiKey(StripQuotes(c.apiKey)),
                  orgId |-> maskOrgId(StripQuotes(c.orgId))]]

\* characters after the prefix: a letter, a space, a tab
BodyChars == {"x", " ", "\t"}
Bodies(n) == UNION {[1..m -> BodyChars] : m \in 0..n}

\* a credential string: optional quotes around an optional prefix and a body
Quoted(s) == {s, <<"\"">> \o s \o <<"\"">>}
ApiKeys ==
  {<<>>} \cup UNION {Quoted(p \o b) :
                       p \in {<<>>, Str_sk, Str_proj}, b \in Bodies(MaxKeyBody)}
OrgIds ==
  {<<>>} \cup UNION {Quoted(p \o b) :
                       p \in {<<>>, Str_org}, b \in Bodies(MaxOrgBody)}

InitValidate ==
  /\ env = [isValid |-> TRUE, assistantId |-> TRUE]
  /\ InitService
  /\ server = "none"
  /\ request = NoRequest
  /\ text = <<>>
  /\ credentials \in [apiKey : ApiKeys, orgId : OrgIds]

\* await validateOpenAIConfig(): the body is wrapped in try/catch and none
\* of its statements can throw on strings
validateOpenAIConfig_call ==
  /\ report = NoResult
  /\ report' = Returned(configReport(credentials))
  /\ UNCHANGED <<serviceVars, remoteVars, callVars, server, request,
                 concVars, parseVars, credentials>>

NextValidate == validateOpenAIConfig_call

SpecValidate == InitValidate /\ [][NextValidate]_vars


\* ---- validateAnalysisResponse called on a text of its own ----

\* the substrings the phrase loop and the section patterns tell apart
PhraseAlphabet == {MS, 5, IFB, WS, WORD, PHR, PHR2}

\* strings of at most MaxLen tokens; two whitespace runs next to each other
\* would be one run
PhraseTexts ==
  {t \in UNION {[1..n -> PhraseAlphabet] : n \in 0..MaxLen} :
     \A k \in 1..(Len(t) - 1) : ~(t[k] = WS /\ t[k + 1] = WS)}

InitReport ==
  /\ env = [isValid |-> TRUE, assistantId |-> TRUE]
  /\ InitService
  /\ credentials = NoCredentials
  /\ server = "none"
  /\ request = NoRequest
  /\ text \in PhraseTexts

\* this.validateAnalysisResponse(text)
validateAnalysisResponse_call ==
  /\ parsed = NoResult
  /\ parsed' = Returned([type |-> "report",
                          report |-> validateAnalysisResponse(text)])
  /\ UNCHANGED <<serviceVars, remoteVars, callVars, server, request,
                 concVars, text, validatorVars>>

NextReport == validateAnalysisResponse_call

SpecReport == InitReport /\ [][NextReport]_vars

\* the service as the server uses it: testConnection() and
\* analyzeApplication() calls on the one exported instance
NextTest ==
  \/ initialize
  \/ testConnection
  \/ threads_create_once
  \/ analyzeApplication
  \/ threads_create
  \/ messages_create
  \/ runs_create
  \/ runs_retrieve
  \/ messages_list
  \/ cleanupThread

SpecTest == Init /\ [][NextTest]_vars


\* ------------------------------------------------------------------------
\* one call of any method of the service, before or after initialize()
\* ------------------------------------------------------------------------
retry_once == op = "none" /\ retry
waitForCompletion_once == op = "none" /\ waitForCompletion
testConnection_once == op = "none" /\ testConnection

\* cleanupThread(thread) called directly, up to `await threads.del`
cleanupThread_call ==
  \E t \in {NULL} \cup (1..MaxContexts) :
    /\ op = "none"
    /\ op' = "cleanupThread"
    /\ entryValid' = isConfigValid
    /\ thread' = t
    /\ IF ~cleanupDeletes(t)
         THEN /\ result' = Returned(UndefinedValue)
              /\ pc' = "done"
         ELSE /\ result' = NoResult
              /\ pc' = "del"
    /\ UNCHANGED <<extVars, serviceVars, remoteVars, maxRetries, maxAttempts,
                   i, attempt, plan, calls, anyOk, faults, lastStatus,
                   lastError, onlyWaiting, steps, delays>>

\* threads.del of a direct cleanupThread settles: a rejection is logged
threads_del ==
  /\ op = "cleanupThread"
  /\ pc = "del"
  /\ pc' = "done"
  /\ Count("del")
  /\ delCalls' = [delCalls EXCEPT ![thread] = @ + 1]
  /\ UNCHANGED created
  /\ \E ok \in BOOLEAN :
       /\ live' = IF ok THEN live \ {thread} ELSE live
       /\ anyOk' = (anyOk \/ ok)
       /\ steps' = Logged("del", ok)
       /\ faults' = IF ok THEN faults ELSE faults + 1
       /\ result' = IF cleanupOutcome(ok) = "return"
                      THEN Returned(UndefinedValue)
                      ELSE Thrown(TransportError("del", 1))
  /\ UNCHANGED <<extVars, serviceVars, op, entryValid, maxRetries,
                 maxAttempts, i, attempt, thread, plan, lastStatus,
                 lastError, onlyWaiting, delays>>

NextAny ==
  \/ initialize
  \/ retry_once
  \/ operation
  \/ waitForCompletion_once
  \/ testConnection_once
  \/ threads_create_once
  \/ cleanupThread_call
  \/ threads_del
  \/ analyzeApplication_once
  \/ threads_create
  \/ messages_create
  \/ runs_create
  \/ runs_retrieve
  \/ messages_list
  \/ cleanupThread

SpecAny == Init /\ [][NextAny]_vars


\* ------------------------------------------------------------------------
\* Properties
\* ------------------------------------------------------------------------
\* the two artifacts a result carries, taken from its analysis text by the
\* service's own parser
recruiterAnalysisOf(r) == parseAnalysisResponse(r.analysis).recruiterFeedback
candidateEmailOf(r) == parseAnalysisResponse(r.analysis).candidateEmail

\* the ordinal of the first succeeding invocation of the fake operation,
\* 0 if it fails on every invocation
FirstOk(pl) ==
  IF \A k \in DOMAIN pl : ~pl[k] THEN 0
  ELSE SetMin({k \in DOMAIN pl : pl[k]})

\* the network positions of a call are only occupied while the service is
\* configured: the flag cannot change under a call in progress
FlagStableInCall ==
  pc \in {"operation", "create", "post", "run", "retrieve", "list", "finally"}
    => configured

\* C1: in every analyzeApplication call whose context creation succeeded,
\* threads.del is invoked for that context exactly once by the time the call
\* completes (and not at all before the finally block), whatever the later
\* steps did; contexts of earlier calls keep their single deletion.
C1_DeletedExactlyOnce ==
  /\ \A t \in 1..created :
       delCalls[t] = IF t = thread /\ pc # "done" THEN 0 ELSE 1
  /\ (Done("analyzeApplication") /\ thread # NULL) => calls["del"] = 1

\* a call that opened a context and then timed out polling has completed
C1_Witness ==
  /\ Done("analyzeApplication")
  /\ thread # NULL
  /\ result.value.success = FALSE
  /\ result.value.error = TimeoutError
  /\ delCalls[thread] = 1

\* C2: analyzeApplication never raises to its caller: every completed call,
\* in every configuration state and for every outcome of the network calls,
\* has returned an analysis result object.
C2_NeverRaises ==
  Done("analyzeApplication") =>
    /\ result.kind = "return"
    /\ result.value.type = "AnalysisResult"

\* a completed call whose message list had no usable text and whose
\* context deletion failed
C2_Witness ==
  /\ Done("analyzeApplication")
  /\ calls["list"] > 0
  /\ result.kind = "return"
  /\ result.value.success = FALSE
  /\ result.value.error = TypeError
  /\ calls["del"] = 1
  /\ thread \in live

\* C3: a call that finds the configuration not valid returns success=true,
\* score 50 and an analysis text holding a non-empty recruiter analysis and
\* a non-empty candidate email, and no network call is made.
C3_FallbackWithoutNetwork ==
  (Done("analyzeApplication") /\ entryValid # "true") =>
    /\ result.kind = "return"
    /\ result.value.success = TRUE
    /\ result.value.score = 50
    /\ recruiterAnalysisOf(result.value) # <<>>
    /\ candidateEmailOf(result.value) # <<>>
    /\ \A o \in Ops : calls[o] = 0
    /\ created = 0

\* a call made after initialization found the configuration invalid
C3_Witness ==
  /\ Done("analyzeApplication")
  /\ entryValid = "false"
  /\ result.value.score = 50

\* C4: every result with success=false carries a non-empty recruiter
\* analysis and a non-empty candidate email.
C4_FailureHasBothArtifacts ==
  (Done("analyzeApplication") /\ result.kind = "return"
     /\ ~result.value.success) =>
    /\ recruiterAnalysisOf(result.value) # <<>>
    /\ candidateEmailOf(result.value) # <<>>

\* C5 as claimed: with a valid configuration and every network call
\* failing, the result is success=false with a non-empty message and
\* context deletion is attempted exactly once.
C5_Original ==
  (Done("analyzeApplication") /\ entryValid = "true" /\ ~anyOk) =>
    /\ result.kind = "return"
    /\ result.value.success = FALSE
    /\ result.value.analysis # <<>>
    /\ calls["del"] = 1

\* C5 amended: with a valid configuration and every network call failing,
\* threads.create is invoked 3 times, no other remote operation is invoked,
\* the result is success=false with a non-empty message, and no deletion is
\* attempted because no context was created.
C5_AllCallsFail ==
  (Done("analyzeApplication") /\ entryValid = "true" /\ ~anyOk) =>
    /\ result.kind = "return"
    /\ result.value.success = FALSE
    /\ result.value.analysis # <<>>
    /\ recruiterAnalysisOf(result.value) # <<>>
    /\ result.value.error = TransportError("create", MAX_RETRIES)
    /\ calls = [NoCalls EXCEPT !["create"] = MAX_RETRIES]
    /\ thread = NULL

\* a configured call in which every network invocation failed
C5_Witness ==
  /\ Done("analyzeApplication")
  /\ entryValid = "true"
  /\ ~anyOk
  /\ faults = MAX_RETRIES
  /\ result.value.success = FALSE

\* C6 as claimed: an operation that fails on every invocation is invoked
\* exactly 3 times by retry(op, 3), which rethrows the last error as it is.
C6_Original ==
  (Done("retry") /\ maxRetries = 3 /\ FirstOk(plan) = 0) =>
    /\ calls["op"] = 3
    /\ result = Thrown(TransportError("op", 3))

\* C6 amended: while the service is configured, an operation that fails on
\* every invocation is invoked exactly 3 times by retry(op, 3), which
\* rethrows the error of the third invocation as it is.
C6_RetryExhausted ==
  (Done("retry") /\ entryValid = "true" /\ maxRetries = 3
     /\ FirstOk(plan) = 0) =>
    /\ calls["op"] = 3
    /\ result = Thrown(TransportError("op", 3))

\* retry(op, 3) of a configured service has given up on a failing operation
C6_Witness ==
  /\ Done("retry")
  /\ entryValid = "true"
  /\ maxRetries = 3
  /\ FirstOk(plan) = 0
  /\ result.kind = "throw"
  /\ calls["op"] = 3

\* C7 as claimed: an operation that first succeeds on its k-th invocation,
\* k <= maxRetries, is invoked exactly k times and retry returns the result
\* of the k-th invocation.
C7_Original ==
  (Done("retry") /\ FirstOk(plan) \in 1..maxRetries) =>
    /\ calls["op"] = FirstOk(plan)
    /\ result = Returned([type |-> "value", seq |-> FirstOk(plan)])

\* C7 amended: while the service is configured, an operation that first
\* succeeds on its k-th invocation, k <= maxRetries, is invoked exactly k
\* times and retry returns the result of the k-th invocation.
C7_RetryUntilSuccess ==
  (Done("retry") /\ entryValid = "true" /\ FirstOk(plan) \in 1..maxRetries) =>
    /\ calls["op"] = FirstOk(plan)
    /\ result = Returned([type |-> "value", seq |-> FirstOk(plan)])

\* retry of a configured service returned the result of the 2nd invocation
C7_Witness ==
  /\ Done("retry")
  /\ entryValid = "true"
  /\ FirstOk(plan) = 2
  /\ calls["op"] = 2
  /\ result.kind = "return"
  /\ result.value.seq = 2

\* C8 as claimed: when every status retrieval succeeds with a waiting
\* status, waitForCompletion with maxAttempts = N performs exactly N status
\* checks and then raises the timeout error.
C8_Original ==
  (Done("waitForCompletion") /\ onlyWaiting /\ faults = 0) =>
    /\ calls["retrieve"] = maxAttempts
    /\ result = Thrown(TimeoutError)

\* C8 amended: while the service is configured, when every status
\* retrieval succeeds with a waiting status, waitForCompletion with
\* maxAttempts = N performs exactly N status checks and then raises the
\* timeout error.
C8_PollingBound ==
  (Done("waitForCompletion") /\ entryValid = "true" /\ onlyWaiting
     /\ faults = 0) =>
    /\ calls["retrieve"] = maxAttempts
    /\ result = Thrown(TimeoutError)

\* waitForCompletion(.., 5) of a configured service timed out after 5 checks
C8_Witness ==
  /\ Done("waitForCompletion")
  /\ entryValid = "true"
  /\ maxAttempts = 5
  /\ onlyWaiting
  /\ faults = 0
  /\ calls["retrieve"] = 5
  /\ result.kind = "throw"

\* the statuses on which waitForCompletion gives the run up
TerminalFailures == {"failed", "cancelled", "expired"}

\* C9: once a status check has returned failed, cancelled or expired, the
\* polling has stopped (no further status check in this call), the error
\* raised carries that status and the reason the remote service reported,
\* no list-messages call is made and analyzeApplication returns
\* success=false with that error.
C9_TerminalFailureAbandons ==
  (op = "analyzeApplication" /\ lastStatus \in TerminalFailures) =>
    /\ pc \in {"finally", "done"}
    /\ calls["list"] = 0
    /\ calls["retrieve"] <= MAX_RETRIES * (attempt + 1)
    /\ result.kind = "return"
    /\ result.value.success = FALSE
    /\ result.value.error.kind = "Assistant run"
    /\ result.value.error.status = lastStatus
    /\ (lastError # "" => result.value.error.reason = lastError)

\* a call has completed whose run expired with a reported reason after it
\* had been seen waiting
C9_Witness ==
  /\ Done("analyzeApplication")
  /\ lastStatus = "expired"
  /\ lastError = "rate_limit_exceeded"
  /\ attempt > 0
  /\ result.value.error.reason = "rate_limit_exceeded"

\* C10 as claimed: only queued and in_progress lead to a wait and another
\* status check; every status other than completed, failed, cancelled,
\* expired, queued and in_progress raises an error at once.
C10_Original ==
  /\ (pc = "retrieve" /\ lastStatus # "none")
       => lastStatus \in {"queued", "in_progress"}
  /\ (op = "waitForCompletion" /\ lastStatus \notin
        {"none", "completed", "failed", "cancelled", "expired", "queued",
         "in_progress"})
       => (pc = "done" /\ result = Thrown(UnknownStatusError(lastStatus)))

\* C10 amended: only queued, in_progress and requires_action lead to a wait
\* and another status check; every status other than completed, failed,
\* cancelled, expired, queued, in_progress and requires_action raises the
\* unknown-status error at once, without further polling.
C10_WaitingStates ==
  /\ (pc = "retrieve" /\ lastStatus # "none")
       => lastStatus \in {"queued", "in_progress", "requires_action"}
  /\ (op = "waitForCompletion" /\ lastStatus \notin
        {"none", "completed", "failed", "cancelled", "expired", "queued",
         "in_progress", "requires_action"})
       => (pc = "done" /\ result = Thrown(UnknownStatusError(lastStatus)))

\* a poll that had waited once was ended by an unrecognized status
C10_Witness ==
  /\ Done("waitForCompletion")
  /\ lastStatus = "unknown"
  /\ calls["retrieve"] = 2
  /\ faults = 0
  /\ result.kind = "throw"

\* C11: a failure of the context deletion never changes what
\* analyzeApplication returns: the step through the finally block leaves the
\* pending result as the try or catch block built it, whether threads.del
\* resolved or was rejected, and that result is returned, not thrown.
C11_DeletionKeepsResult ==
  [][(op = "analyzeApplication" /\ pc = "finally")
       => (result' = result /\ result'.kind = "return")]_vars

\* a call whose analysis succeeded and whose deletion was rejected has
\* completed with the success result
C11_Witness ==
  /\ Done("analyzeApplication")
  /\ thread \in live
  /\ calls["del"] = 1
  /\ result = Returned(SuccessResult(WellFormed72))
\* C12: the score of every result analyzeApplication returns, on the success
\* path, the failure path and the fallback path, is an integer in [0,100].
C12_ScoreInRange ==
  Done("analyzeApplication") =>
    /\ result.kind = "return"
    /\ result.value.score \in 0..100

\* a call has succeeded on a text that announces "Match Score:150"
C12_Witness ==
  /\ Done("analyzeApplication")
  /\ result.value.success
  /\ result.value.analysis = NoSeparator150
  /\ result.value.score = 100

\* the fallback output: success with the fallback text and score 50
isFallbackOutput(r) ==
  r.success /\ r.score = 50 /\ r.analysis = FallbackAnalysis

\* statuses on which waitForCompletion polls again
WaitingStatuses == {"queued", "in_progress", "requires_action"}

\* C13: a call that found the configuration valid and then failed (no status
\* ever retrieved because a transport error outlived its retries, a terminal
\* run failure, a poll that timed out) returns success=false with the error
\* of that failure, never the fallback output; the fallback output is
\* returned exactly by the calls that found the service not configured.
C13_FailureIsNotFallback ==
  Done("analyzeApplication") =>
    LET r == result.value
    IN /\ isFallbackOutput(r) <=> entryValid # "true"
       /\ ~r.success => (entryValid = "true" /\ r.error.name = "Error")
       /\ (entryValid = "true" /\ lastStatus = "none")
            => (~r.success /\ r.error.kind = "transport")
       /\ (entryValid = "true" /\ lastStatus \in TerminalFailures)
            => (~r.success /\ r.error = RunError(lastStatus, lastError))
       /\ (entryValid = "true" /\ lastStatus \in WaitingStatuses
                               /\ faults = 0)
            => (~r.success /\ r.error = TimeoutError)

\* a configured call whose run creation was rejected three times has
\* completed
C13_Witness ==
  /\ Done("analyzeApplication")
  /\ entryValid = "true"
  /\ ~result.value.success
  /\ result.value.error = TransportError("run", 3)
\* C14 as stated: testConnection never throws; without a valid configuration
\* it returns true without any network call; with one it creates one context,
\* deletes it and returns true, and every exception of that round trip,
\* creation or deletion, makes it return false.
C14_Original ==
  Done("testConnection") =>
    /\ result.kind = "return"
    /\ entryValid # "true"
         => (result.value = BoolValue(TRUE) /\ calls = NoCalls)
    /\ (entryValid = "true" /\ faults = 0)
         => /\ result.value = BoolValue(TRUE)
            /\ calls["create"] = 1 /\ calls["del"] = 1
            /\ thread \notin live
    /\ (entryValid = "true" /\ faults > 0)
         => result.value = BoolValue(FALSE)

\* C14: testConnection never throws; without a valid configuration it
\* returns true without any network call; with one it invokes context
\* creation once: if that is rejected it returns false and deletes nothing,
\* otherwise it invokes deletion of that context once and returns true,
\* also when the deletion is rejected (the context then stays alive).
C14_ProbeResult ==
  Done("testConnection") =>
    /\ result.kind = "return"
    /\ entryValid # "true"
         => (result.value = BoolValue(TRUE) /\ calls = NoCalls)
    /\ entryValid = "true"
         => /\ calls["create"] = 1
            /\ thread = NULL
                 => (result.value = BoolValue(FALSE) /\ calls["del"] = 0
                     /\ faults = 1)
            /\ thread # NULL
                 => /\ result.value = BoolValue(TRUE)
                    /\ calls["del"] = 1
                    /\ delCalls[thread] = 1
                    /\ thread \in live <=> faults = 1

\* a probe whose context was created and whose deletion was rejected has
\* returned true
C14_Witness ==
  /\ Done("testConnection")
  /\ entryValid = "true"
  /\ thread \in live
  /\ faults = 1
  /\ result = Returned(BoolValue(TRUE))
\* some AI credential is missing or malformed, everything else is in place
BadCredentials == env.required /\ ~validateOpenAIConfig(env)

\* C15: no missing or malformed AI credential (absent API key, API key with
\* a wrong prefix, absent or wrongly prefixed organization id) stops the
\* process from starting: module loading does not throw, startServer does
\* not exit, and a server that listens has its orchestrator in fallback mode
\* as soon as initialize() has run.
C15_BadCredentialsNeverStop ==
  BadCredentials =>
    /\ server \notin {"crashed", "exited"}
    /\ (server = "listening" /\ isConfigValid # "undefined")
         => isConfigValid = "false"
\* a submission that passes every check of postApplication
ValidRequest(q) ==
  /\ q.role = "Job Seeker"
  /\ q.resume = "ok"
  /\ q.jobId /\ q.jobFound
  /\ q.coverLetter /\ q.fields

\* the analysis of the submission failed: analyzeApplication returned
\* success=false, or threw
AnalysisFailed ==
  /\ Done("analyzeApplication")
  /\ (result.kind = "throw" \/ ~result.value.success)

\* C16: a submission through postApplication whose request is otherwise
\* valid (and whose storage calls succeed) is never failed because of the
\* AI dependency: when the analysis returned success=false or threw, the
\* application is still created, with score 0 and a manual-review text, and
\* the response is the success response.
C16_SubmissionSurvivesAIFailure ==
  (/\ request.pc = "responded"
   /\ ValidRequest(request.in)
   /\ ~request.storeFailed
   /\ AnalysisFailed)
    => /\ request.response = Respond(200, "Application Submitted!")
       /\ request.application.type = "Application"
       /\ request.application.matchScore = 0
       /\ request.application.analysis = FailedReview.recruiterAnalysis
       /\ \E k \in DOMAIN request.application.analysis :
            request.application.analysis[k] = MANUAL

\* a valid submission whose analysis timed out has been answered
C16_Witness ==
  /\ request.pc = "responded"
  /\ ValidRequest(request.in)
  /\ Done("analyzeApplication")
  /\ result = Returned(FailureResult(TimeoutError))
  /\ request.response.success
  /\ request.application.matchScore = 0
\* the remote operations of analyzeApplication in program order, each
\* followed by its success
StepOrder ==
  <<"create", "ok", "post", "ok", "run", "ok", "retrieve", "ok",
    "list", "ok">>

IsPrefix(a, b) == Len(a) <= Len(b) /\ a = SubSeq(b, 1, Len(a))

\* C17: within one analyzeApplication call the remote operations occur
\* strictly in the order create context, post message, create run, poll
\* status, list messages, delete context; each step is started only after
\* the previous one succeeded (after a step that failed for good nothing but
\* the deletion is issued); the deletion is issued once, only on a context
\* that was created, it is the last operation, and it has succeeded or
\* failed by the time the call has completed.
C17_StrictOrder ==
  op = "analyzeApplication" =>
    LET dels == {k \in DOMAIN steps : steps[k] = "del"}
        body == IF dels = {} THEN steps
                ELSE SubSeq(steps, 1, SetMin(dels) - 1)
        tail == IF dels = {} THEN <<>>
                ELSE SubSeq(steps, SetMin(dels) + 1, Len(steps))
    IN /\ IsPrefix(body, StepOrder)
       /\ \A o \in Ops : calls[o] > 0 <=> \E k \in DOMAIN steps : steps[k] = o
       /\ dels # {} => /\ Len(body) >= 2
                       /\ tail \in {<<>>, <<"ok">>}
                       /\ calls["del"] = 1
                       /\ pc = "done"
       /\ (pc = "done" /\ Len(body) >= 2) => dels # {}

\* a call whose poll ended without a completed run has deleted its context
\* and completed
C17_Witness ==
  /\ Done("analyzeApplication")
  /\ steps = <<"create", "ok", "post", "ok", "run", "ok", "retrieve",
               "del", "ok">>
\* C18: under any interleaving of concurrent analyzeApplication calls, every
\* post, run creation, poll, list and deletion of a call is issued on the
\* context that call created itself, each context is deleted by nobody but
\* its creator and at most once, the context a call holds is one it created,
\* and a step of one call leaves the frame of every other call, and with it
\* that call's result, as it was.
C18_OwnContextOnly ==
  /\ [](/\ \A r \in refs : r.ctx \in DOMAIN owner /\ owner[r.ctx] = r.call
        /\ \A t \in DOMAIN owner : delCalls[t] <= 1
        /\ \A c \in Calls :
             frames[c].thread # NULL
               => (frames[c].thread \in DOMAIN owner
                   /\ owner[frames[c].thread] = c))
  /\ [][\A c, d \in Calls :
         (c # d /\ frames'[c] # frames[c]) => frames'[d] = frames[d]]_vars

\* two calls were in flight together: the call that created the second
\* context has completed with a success while the creator of the first is
\* still polling, and both have issued operations
C18_Witness ==
  /\ Len(owner) = 2
  /\ owner[1] # owner[2]
  /\ frames[owner[1]].pc = "retrieve"
  /\ frames[owner[2]].pc = "done"
  /\ frames[owner[2]].result.value.success
  /\ \E r \in refs : r.call = owner[1]
  /\ \E r \in refs : r.call = owner[2] /\ r.op = "del"
\* parseMatchScore has been called on text and returned
ScoreParsed == parsed.kind = "return" /\ parsed.value.type = "score"

\* the occurrences of "Match Score: N" in t when N may carry a minus sign,
\* and the number written at such an occurrence
SignedScoreAt(t, k) ==
  /\ t[k] = MS
  /\ LET j == SkipWS(t, k + 1)
     IN \/ j <= Len(t) /\ t[j] >= 0
        \/ j + 1 <= Len(t) /\ t[j] = MINUS /\ t[j + 1] >= 0

SignedScore(t, k) ==
  LET j == SkipWS(t, k + 1)
  IN IF t[j] = MINUS THEN 0 - t[j + 1] ELSE t[j]

Clamp(n) == IF n < 0 THEN 0 ELSE IF n > 100 THEN 100 ELSE n

\* C19 as stated: parseMatchScore returns N for every text whose first
\* "Match Score: N" occurrence has N in [0,100], N clamped into [0,100] when
\* N is above or below that range, and 0 without such an occurrence; only
\* the first occurrence is used.
C19_Original ==
  ScoreParsed =>
    LET occ == {k \in DOMAIN text : SignedScoreAt(text, k)}
    IN parsed.value.score =
         IF occ = {} THEN 0 ELSE Clamp(SignedScore(text, SetMin(occ)))

\* C19: parseMatchScore looks for the first "Match Score:" that is followed,
\* after optional whitespace, by an unsigned run of digits N; it returns N
\* when N <= 100, 100 when N > 100, and 0 when there is no such occurrence.
\* Later occurrences are not used; a "Match Score:" followed by anything
\* else, a minus sign included, is not an occurrence and is passed over.
C19_FirstUnsignedScore ==
  ScoreParsed =>
    LET digitsAfter(k) ==
          {j \in (k + 1)..Len(text) :
             text[j] >= 0 /\ \A m \in (k + 1)..(j - 1) : text[m] = WS}
        occ == {k \in DOMAIN text : text[k] = MS /\ digitsAfter(k) # {}}
    IN /\ parsed.value.score \in 0..100
       /\ occ = {} => parsed.value.score = 0
       /\ occ # {} =>
            LET N == text[SetMin(digitsAfter(SetMin(occ)))]
            IN parsed.value.score = IF N > 100 THEN 100 ELSE N

\* a text whose first score is written with a minus sign and whose second
\* is above the range has been parsed
C19_Witness ==
  /\ ScoreParsed
  /\ text = <<MS, MINUS, 5, MS, 150>>
  /\ parsed.value.score = 100

\* C20: for every raw output, one without separator and an empty one
\* included, parseAnalysisResponse returns a candidate email that is not the
\* empty string; without separator the entire input becomes the recruiter
\* analysis.
C20_EmailNeverEmpty ==
  (parsed.kind = "return" /\ parsed.value.type = "parts") =>
    /\ parsed.value.parts.candidateEmail # <<>>
    /\ (\A k \in DOMAIN text : text[k] # H2)
         => parsed.value.parts.recruiterFeedback = text

\* ---- C21 ----

\* positions of the markers named as separators
Markers(t) == {k \in DOMAIN t : t[k] \in {H2, SUBJ, SEP}}

\* the text before and the text after the first marker, header 1 removed
\* from the former, both trimmed
SplitAtFirstMarker(t) ==
  LET k == SetMin(Markers(t))
  IN [recruiterFeedback |-> Trim(RemoveFirst(SubSeq(t, 1, k - 1), H1)),
      candidateEmail |-> Trim(SubSeq(t, k + 1, Len(t)))]

PartsParsed == parsed.kind = "return" /\ parsed.value.type = "parts"

\* C21: a text containing the second-section header, "Subject:" or a
\* horizontal rule is split at the first of these markers: what precedes it
\* is the recruiter analysis and what follows it is the candidate email
C21_SplitAtFirstMarker ==
  (PartsParsed /\ Markers(text) # {})
    => parsed.value.parts = SplitAtFirstMarker(text)


\* ---- C22 ----

\* the text is header 1, R, header 2, E with R and E free of separators and
\* of surrounding whitespace
IsTemplate(t) ==
  /\ Len(t) >= 2
  /\ t[1] = H1
  /\ Cardinality(Markers(t)) = 1
  /\ t[SetMin(Markers(t))] = H2
  /\ LET k == SetMin(Markers(t))
     IN /\ Trim(SubSeq(t, 2, k - 1)) = SubSeq(t, 2, k - 1)
        /\ Trim(SubSeq(t, k + 1, Len(t))) = SubSeq(t, k + 1, Len(t))

TemplateR(t) == SubSeq(t, 2, SetMin(Markers(t)) - 1)
TemplateE(t) == SubSeq(t, SetMin(Markers(t)) + 1, Len(t))

\* C22: for an input built as header 1, R, header 2, E the parser returns
\* exactly R as recruiter feedback and exactly E as candidate email, and
\* joining the two with the headers gives the input back
C22_RoundTrip ==
  (PartsParsed /\ IsTemplate(text)) =>
    /\ parsed.value.parts.recruiterFeedback = TemplateR(text)
    /\ parsed.value.parts.candidateEmail = TemplateE(text)
    /\ <<H1>> \o parsed.value.parts.recruiterFeedback
         \o <<H2>> \o parsed.value.parts.candidateEmail = text

\* a template with both sections non-empty, R of two words, has been parsed
C22_Witness ==
  /\ PartsParsed
  /\ IsTemplate(text)
  /\ Len(TemplateR(text)) >= 2
  /\ TemplateE(text) # <<>>


\* ---- C23 ----

Reported == report.kind = "return"
IssueSet == {report.value.issues[k] : k \in DOMAIN report.value.issues}
apiKeyFound == StripQuotes(credentials.apiKey)
orgIdFound == StripQuotes(credentials.orgId)

WrongKeyPrefix ==
  /\ credentials.apiKey # <<>>
  /\ ~StartsWith(apiKeyFound, Str_sk)
  /\ ~StartsWith(apiKeyFound, Str_proj)
WrongOrgPrefix ==
  credentials.orgId # <<>> /\ ~StartsWith(orgIdFound, Str_org)
\* the string holds one of the characters of W
KeyHolds(W) == \E c \in W : Includes(apiKeyFound, c)
OrgHolds(W) == \E c \in W : Includes(orgIdFound, c)

\* the validator contract with W as the characters that count as whitespace
ValidatorContract(W) ==
  report # NoResult =>
    /\ Reported
    /\ report.value.isValid <=> (report.value.issues = <<>>)
    /\ WrongKeyPrefix =>
         ~report.value.isValid /\ "apiKeyPrefix" \in IssueSet
    /\ WrongOrgPrefix =>
         ~report.value.isValid /\ "orgIdPrefix" \in IssueSet
    /\ (credentials.apiKey # <<>> /\ KeyHolds(W)) =>
         ~report.value.isValid /\ "apiKeySpaces" \in IssueSet
    /\ (credentials.orgId # <<>> /\ OrgHolds(W)) =>
         ~report.value.isValid /\ "orgIdSpaces" \in IssueSet
    /\ ( /\ credentials.apiKey # <<>> /\ credentials.orgId # <<>>
         /\ ~WrongKeyPrefix /\ ~WrongOrgPrefix
         /\ ~KeyHolds(W) /\ ~OrgHolds(W) )
         => report.value.isValid /\ report.value.issues = <<>>

\* C23: the validator returns a report for every pair of strings; a wrong
\* prefix or whitespace of any kind (space, tab) in either string gives
\* isValid=false with the issue naming it; a well-formed pair gives
\* isValid=true without issues; isValid holds exactly when no issue is listed
C23_AnyWhitespaceRejected == ValidatorContract({" ", "\t"})

\* ---- C24 ----

\* s occurs in m as a run of consecutive characters
Contains(m, s) ==
  \E k \in 0..(Len(m) - Len(s)) : SubSeq(m, k + 1, k + Len(s)) = s

\* the characters of a masked value before and after its stars
MaskHead(m) == SubSeq(m, 1, SetMin({k \in DOMAIN m : m[k] = "*"}) - 1)
MaskTail(m) == SubSeq(m, SetMax({k \in DOMAIN m : m[k] = "*"}) + 1, Len(m))

\* every character of s can be read off m: s is the head of m continued by
\* an end piece of its tail
ReadableFrom(m, s) ==
  \E j \in 0..Len(MaskTail(m)) :
    s = MaskHead(m) \o SubSeq(MaskTail(m), j + 1, Len(MaskTail(m)))

\* C24: the masked configuration of a report never holds the API key: the
\* key does not occur in the masked value, it cannot be put together from
\* the characters shown, and what is shown is at most the first 5 and the
\* last 4 characters of the key and the last 4 of the organization id
C24_MaskHidesKey ==
  (Reported /\ apiKeyFound # <<>>) =>
    LET m == report.value.config.apiKey
    IN /\ ~Contains(m, apiKeyFound)
       /\ ~ReadableFrom(m, apiKeyFound)
       /\ MaskHead(m) = SliceHead(apiKeyFound, 5)
       /\ MaskTail(m) = SliceTail(apiKeyFound, 4)
       /\ orgIdFound # <<>> =>
            MaskTail(report.value.config.orgId) = SliceTail(orgIdFound, 4)


\* ---- C25 ----

\* the texts messages.list can hand to analyzeApplication
AssistantTexts == {m.text : m \in {r \in ListResponses : r.hasText}}

\* the errors the messages.list step can end in
ListErrors ==
  {TypeError} \cup {TransportError("list", n) : n \in 1..(maxRetries + MaxFaults)}

\* C25: a validation report with isValid=false neither blocks nor alters the
\* result: whenever the list step hands over a text, valid or not,
\* analyzeApplication returns success=true with that text unmodified, the
\* score parsed from it and its validation report; the step fails only on
\* a transport error or a list without text
C25_InvalidTextStillReturned ==
  [][(op = "analyzeApplication" /\ pc = "list" /\ pc' = "finally") =>
       /\ result'.kind = "return"
       /\ IF result'.value.success
            THEN /\ result'.value.analysis \in AssistantTexts
                 /\ result'.value.score =
                      parseMatchScore(result'.value.analysis)
                 /\ result'.value.validation =
                      validateAnalysisResponse(result'.value.analysis)
            ELSE result'.value.error \in ListErrors]_vars

\* a call has returned a text that is too long, another a text with a
\* missing section and a forbidden phrase
C25_Witness ==
  /\ Done("analyzeApplication")
  /\ result.value.success
  /\ result.value.analysis \in {TooLong72, NoSeparator150}
  /\ ~result.value.validation.isValid
  /\ \/ result.value.validation.issues = <<"too long">>
     \/ /\ result.value.validation.issues = <<"inappropriate phrase">>
        /\ result.value.validation.missing # <<>>


\* ---- C26 ----

\* a two-section text with all five required sections, "Match Score:"
\* followed by a number, no forbidden phrase and at most 150 words
IsWellFormed(t) ==
  /\ \E k \in DOMAIN t : t[k] = H1
  /\ Cardinality({k \in DOMAIN t : t[k] = H2}) = 1
  /\ \E k \in 1..(Len(t) - 2) : t[k] = MS /\ t[k + 1] = WS /\ t[k + 2] >= 0
  /\ \A h \in {IFB, SID, AFE, REC} :
       \E k \in 1..(Len(t) - 1) : t[k] = h
  /\ \A k \in DOMAIN t : t[k] # PHR
  /\ WordCount(t) <= 150

\* the number N of the first "Match Score: N" of a well-formed text
AnnouncedScore(t) ==
  t[SetMin({k \in 1..(Len(t) - 2) : t[k] = MS /\ t[k + 1] = WS}) + 2]

\* the call found the configuration valid, none of its network calls failed
\* and the run completed
AllCallsSucceeded ==
  /\ Done("analyzeApplication")
  /\ entryValid = "true"
  /\ faults = 0
  /\ lastStatus = "completed"

Running == op = "analyzeApplication" /\ pc \notin {"idle", "done"}

\* the remote calls issued so far by the analyzeApplication call stay within
\* their bounds, as do the two loop counters
CallBounds ==
  op = "analyzeApplication" =>
    /\ \A o \in {"create", "post", "run", "list"} : calls[o] <= maxRetries
    /\ calls["retrieve"] <= maxAttempts * maxRetries
    /\ calls["del"] <= 1
    /\ attempt < maxAttempts
    /\ i < maxRetries

\* how far the call has come: the statement it is at, then the pass of the
\* polling loop, then the pass of the retry loop
Stage ==
  CASE pc = "create" -> 1
    [] pc = "post" -> 2
    [] pc = "run" -> 3
    [] pc = "retrieve" -> 4
    [] pc = "list" -> 5
    [] pc = "finally" -> 6
    [] OTHER -> 7
Progress == (Stage * (maxAttempts + 1) + attempt) * (maxRetries + 1) + i

\* a retrieval has just failed on the last pass of its retry loop
RetrievalGaveUp ==
  /\ Running
  /\ pc = "retrieve"
  /\ faults' = faults + 1
  /\ i + 1 = maxRetries

\* C27: every analyzeApplication call terminates when each network call
\* eventually returns or fails: every step takes the call further, it
\* issues at most maxRetries calls for each of create, post message, create
\* run and list messages, at most maxAttempts times maxRetries status
\* retrievals and at most one deletion, and a retrieval that failed on all
\* its retries ends the polling at once with that error
C27_BoundedAndTerminates ==
  /\ []CallBounds
  /\ [][Running => Progress' > Progress]_vars
  /\ [][RetrievalGaveUp =>
          /\ pc' = "finally"
          /\ attempt' = attempt
          /\ calls'["retrieve"] = calls["retrieve"] + 1
          /\ result' = Returned(FailureResult(
                         TransportError("retrieve", calls'["retrieve"])))]_vars
  /\ Running ~> Done("analyzeApplication")

\* a call has ended on a retrieval that failed three times in the second
\* pass of the polling loop
C27_Witness ==
  /\ Done("analyzeApplication")
  /\ ~result.value.success
  /\ result.value.error = TransportError("retrieve", 4)
  /\ attempt = 1
  /\ calls["del"] = 1

\* ---- C28 ----

RECURSIVE SumSeq(_)
SumSeq(s) == IF s = <<>> THEN 0 ELSE Head(s) + SumSeq(Tail(s))

\* attempts of the operation that have failed so far in the retry() call
FailedAttempts ==
  IF Done("retry") /\ result.kind = "return" /\ result.value.type = "value"
    THEN calls["op"] - 1
    ELSE calls["op"]

\* C28: in retry the wait after the i-th failed attempt (i from 1) is
\* RETRY_DELAY times i, and after the last of maxRetries failed attempts
\* there is no wait: an operation that fails on each of 3 attempts waits
\* 1000, then 2000, 3000 in total, before its error is rethrown
C28_LinearDelays ==
  op = "retry" =>
    /\ \A k \in DOMAIN delays : delays[k] = RETRY_DELAY * k
    /\ Len(delays) =
         IF result.kind = "throw" THEN maxRetries - 1 ELSE FailedAttempts
    /\ result.kind = "throw" => calls["op"] = maxRetries
    /\ (result.kind = "throw" /\ maxRetries = 3) =>
         delays = <<1000, 2000>> /\ SumSeq(delays) = 3000

\* an operation has failed on each of its 3 attempts
C28_Witness ==
  /\ Done("retry")
  /\ maxRetries = 3
  /\ result.kind = "throw"
  /\ calls["op"] = 3
  /\ SumSeq(delays) = 3000


\* ---- C29 ----

\* the contexts created by call c
ContextsOf(c) == {t \in DOMAIN owner : owner[t] = c}

\* C29: a call obtains at most one context; every operation it issues, the
\* retries included, is issued on that one handle, which does not change
\* once it is set; a retry creates no context; and a context is used by no
\* call but the one that created it
C29_OneContextPerCall ==
  /\ [](/\ \A c \in Calls : Cardinality(ContextsOf(c)) <= 1
        /\ \A r \in refs : ContextsOf(r.call) = {r.ctx}
        /\ \A c \in Calls :
             frames[c].thread # NULL => ContextsOf(c) = {frames[c].thread})
  /\ [][\A c \in Calls :
          /\ frames[c].thread # NULL => frames'[c].thread = frames[c].thread
          /\ frames[c].pc # "create" => ContextsOf(c)' = ContextsOf(c)]_vars

\* a call has retried a step after its context was created, and both calls
\* have issued operations, each on its own context
C29_Witness ==
  /\ \E c \in Calls :
       /\ frames[c].i > 0
       /\ frames[c].pc \in {"post", "run", "retrieve", "list"}
       /\ \E r \in refs : r.call = c /\ r.op = frames[c].pc
  /\ \A c \in Calls : \E r \in refs : r.call = c
  /\ Cardinality({r.ctx : r \in refs}) = 2


\* ---- C30 ----

ServiceMethods == {"analyzeApplication", "testConnection"}

\* C30: the validity flag is decided once: it is written by initialize
\* alone, before any call has found it set; once initialize has finished,
\* no step of analyzeApplication (with the retry and waitForCompletion calls
\* it makes), testConnection or cleanupThread changes it, and a service in
\* fallback mode stays there
C30_FlagDecidedOnce ==
  /\ [][isConfigValid # "undefined" => isConfigValid' = isConfigValid]_vars
  /\ [][isConfigValid' # isConfigValid =>
          /\ isConfigValid' \in {"true", "false"}
          /\ UNCHANGED <<callVars, remoteVars>>]_vars
  /\ [](op \in ServiceMethods =>
          (entryValid = isConfigValid \/ entryValid = "undefined"))

\* a configured service has completed a connection test that deleted its
\* probe context, after an earlier call had created a context as well
C30_Witness ==
  /\ isConfigValid = "true"
  /\ Done("testConnection")
  /\ calls["del"] = 1
  /\ created >= 2


\* ---- C31 ----

\* a call has returned a text of the assistant together with its report
Validated ==
  /\ Done("analyzeApplication")
  /\ result.kind = "return"
  /\ result.value.success
  /\ result.value # FallbackResult

\* C31: the validator of the two-section service flags a too-long issue
\* only when the word count exceeds 500: a text of at most 500 words has no
\* such issue, and one of 151 to 500 words with all sections and no
\* forbidden phrase is valid
C31_CeilingIs500 ==
  (Validated /\ result.value.validation.wordCount <= 500) =>
    /\ \A k \in DOMAIN result.value.validation.issues :
         result.value.validation.issues[k] # "too long"
    /\ ( /\ result.value.validation.wordCount > 150
         /\ result.value.validation.missing = <<>>
         /\ \A k \in DOMAIN result.value.analysis :
              result.value.analysis[k] # PHR )
         => result.value.validation.isValid


\* ---- C32 ----

ReportMade == parsed.kind = "return" /\ parsed.value.type = "report"

\* how often phrase p occurs in text t
Occurrences(t, p) == Cardinality({k \in DOMAIN t : t[k] = p})

\* how many issues of a report name phrase p
IssuesFor(rep, p) ==
  Cardinality({k \in DOMAIN rep.issues : rep.issues[k] = PhraseIssue(p)})

PhraseSet == {InappropriatePhrases[k] : k \in DOMAIN InappropriatePhrases}

\* C32 as stated: the report holds one issue for each occurrence of a
\* disallowed phrase: k occurrences give k issues for that phrase
C32_Original ==
  ReportMade =>
    \A p \in PhraseSet :
      IssuesFor(parsed.value.report, p) = Occurrences(text, p)

\* C32: the report holds one issue for each disallowed phrase that occurs in
\* the text, however often it occurs, and none for a phrase that does not
\* occur; any such issue makes the report invalid
C32_OneIssuePerPhrase ==
  ReportMade =>
    /\ \A p \in PhraseSet :
         IssuesFor(parsed.value.report, p) =
           IF Occurrences(text, p) > 0 THEN 1 ELSE 0
    /\ (\E p \in PhraseSet : Occurrences(text, p) > 0)
         => ~parsed.value.report.isValid

\* a text with one phrase twice and the other once has been validated
C32_Witness ==
  /\ ReportMade
  /\ Occurrences(text, PHR) = 2
  /\ Occurrences(text, PHR2) = 1
  /\ parsed.value.report.issues =
       <<"inappropriate phrase", "inappropriate phrase 2">>


\* ---- C33 ----

OrgIdHasQuote == \E k \in DOMAIN credentials.orgId : credentials.orgId[k] \in Quotes
OrgIssues == {"orgIdMissing", "orgIdPrefix", "orgIdSpaces"}

\* C33: for every organization id that contains a single or a double quote
\* the report has isValid=false and lists an issue about the organization id
C33_QuotedOrgRejected ==
  (Reported /\ OrgIdHasQuote) =>
    /\ ~report.value.isValid
    /\ IssueSet \cap OrgIssues # {}


\* ---- C34 ----

Created == request.pc = "responded" /\ request.application # NoApplication

\* C34: an application that postApplication has created holds a non-empty
\* recruiter analysis and a non-empty candidate email, whichever way the
\* analysis went (AI result, AI failure, fallback result)
C34_ArtifactsStored ==
  Created =>
    /\ request.application.analysis # <<>>
    /\ request.application.candidateEmail.type = "string"
    /\ request.application.candidateEmail.value # <<>>


\* ---- C35 ----

\* what each method returns without touching the client
FallbackReturn(name) ==
  CASE name = "retry" -> Returned(NullValue)
    [] name = "waitForCompletion" -> Returned(NullValue)
    [] name = "cleanupThread" -> Returned(UndefinedValue)
    [] name = "testConnection" -> Returned(BoolValue(TRUE))
    [] name = "analyzeApplication" -> Returned(FallbackResult)

NoNetworkUse ==
  /\ calls = NoCalls
  /\ steps = <<>>
  /\ created = 0
  /\ live = {}
  /\ \A t \in DOMAIN delCalls : delCalls[t] = 0

\* C35: a method called while the validity flag is not true completes at
\* once with its fallback value and no remote operation has been invoked:
\* retry does not invoke its operation, waitForCompletion retrieves no
\* status, cleanupThread deletes nothing, testConnection and
\* analyzeApplication do not contact the client
C35_NoNetworkInFallback ==
  (op # "none" /\ entryValid # "true") =>
    /\ pc = "done"
    /\ result = FallbackReturn(op)
    /\ NoNetworkUse

C35_Witness ==
  /\ Done("cleanupThread")
  /\ entryValid = "false"
  /\ thread # NULL
  /\ NoNetworkUse


\* ---- C36 ----

\* C36: initialize() runs at any point between the calls. A call of
\* analyzeApplication or testConnection that starts before it has assigned
\* the flag completes at once with its fallback value and without a remote
\* operation; a call that finds the flag true finds the client and the
\* assistant id set, and so does every state in which the flag is true
C36_CallsBeforeInitialize ==
  /\ (op \in ServiceMethods /\ entryValid = "undefined") =>
       /\ pc = "done"
       /\ result = FallbackReturn(op)
       /\ calls = NoCalls
       /\ steps = <<>>
       /\ created = 0
  /\ (op \in ServiceMethods /\ entryValid = "true") =>
       client = "openai" /\ assistantId = "asst"
  /\ isConfigValid = "true" => client = "openai" /\ assistantId = "asst"

\* a call made before initialize() had finished, and initialize() has since
\* found a complete configuration
C36_Witness ==
  /\ Done("testConnection")
  /\ entryValid = "undefined"
  /\ result = Returned(BoolValue(TRUE))
  /\ isConfigValid = "true"
  /\ client = "openai"


\* ---- C39 ----

Rejected ==
  /\ request.pc = "responded"
  /\ request.response.status \in {400, 404}
AnalysisStarted == op = "analyzeApplication"

\* C39: a submission answered with a rejection (no job id, unknown job, a
\* missing field) has stored no resume file and started no analysis; once
\* the request is answered, a stored file or a started analysis belongs to
\* a created application
C39_RejectionLeavesNothing ==
  /\ Rejected => ~request.resumeStored /\ ~AnalysisStarted
  /\ (request.pc = "responded" /\ (request.resumeStored \/ AnalysisStarted))
       => request.application # NoApplication


\* ---- C38 ----

Responded == request.pc = "responded"
NoContent ==
  /\ ~Truthy(request.in.customEmail)
  /\ ~Truthy(request.before.candidateEmail)

\* C38: the stored application differs from what the request found only
\* after the email service has sent the email, and then emailSent is true
\* and sentEmail is the text that was sent; the success response comes
\* after the send and the save; a request whose send failed or that had no
\* content is answered with an error and leaves the application as it was
C38_MarkedAfterSend ==
  /\ request.application # request.before =>
       /\ request.mailed
       /\ request.application =
            [request.before EXCEPT
               !.emailSent = TRUE,
               !.sentEmail = emailContent(request.in.customEmail,
                                          request.before)]
  /\ request.pc = "save" => request.mailed
  /\ (Responded /\ request.response.status = 200) =>
       request.mailed /\ request.application.emailSent
  /\ (Responded /\ (~request.mailed \/ NoContent)) =>
       /\ request.application = request.before
       /\ ~request.response.success
       /\ request.response.status \in {404, 500}
  /\ NoContent => ~request.mailed

\* an application that was not marked before is marked after a send of its
\* stored candidate email
C38_Witness ==
  /\ Responded
  /\ request.response.status = 200
  /\ request.mailed
  /\ ~request.before.emailSent
  /\ request.in.customEmail = UndefinedValue
  /\ request.application.emailSent
  /\ request.application.sentEmail = request.before.candidateEmail


\* ---- C37 ----

Regenerated == Responded /\ request.response.status = 200

\* C37: a regenerateFeedback request that is answered with an error (no
\* application, no job, an analysis that failed or threw, a failed update)
\* leaves the stored application as it was; the stored application changes
\* only with the success response, and then the recruiter analysis, the
\* candidate email and the match score are those of the new analysis and
\* emailSent is false
C37_AllOrNothing ==
  /\ (Responded /\ ~Regenerated) => request.application = request.before
  /\ request.application # request.before => Regenerated
  /\ Regenerated =>
       /\ Done("analyzeApplication")
       /\ result.kind = "return"
       /\ result.value.success
       /\ request.application.analysis = request.ai.recruiterAnalysis
       /\ Truthy(request.ai.candidateEmail)
       /\ request.application.candidateEmail = request.ai.candidateEmail
       /\ request.application.matchScore = request.ai.score
       /\ ~request.application.emailSent

====
